---------------------------- MODULE Spec2Model ----------------------------
(***************************************************************************)
(* State-machine model of the asynchronous combinators of                  *)
(* src/src/asyncUtils/async-utils.ts.                                      *)
(*                                                                         *)
(* Every combinator is modelled by its own group of variables and its own  *)
(* specification (SpecRetry, SpecTimeout, ...): the combinators share no   *)
(* state in the source, so each is explored alone, from the common Init.   *)
(*                                                                         *)
(* JavaScript runs every callback to completion, so one action is one      *)
(* synchronous stretch of code: from a call, a timer firing or the         *)
(* settlement of an awaited promise up to the next await or return.        *)
(* Timers are exact: time does not pass a pending timer's deadline.        *)
(***************************************************************************)
EXTENDS Integers, Sequences, FiniteSets, TLC

(***************************************************************************)
(* Bounds of the exploration.                                              *)
(***************************************************************************)
MaxAttempts == 3    \* largest maxAttempts / retries argument tried
MaxBaseDelay == 3   \* largest baseDelay / delay argument tried
MaxCapDelay == 4    \* largest maxDelay argument tried
MaxDuration == 2    \* largest timeout / interval / delay / cooldown tried
Horizon == 5        \* how far the clock runs past its initial value
MaxMemoCalls == 3   \* calls made to a memoized function
MaxDebCalls == 3    \* calls made to a debounced function
MaxThCalls == 5     \* calls made to a throttled function
MaxLiveCalls == 3   \* the same, where the executions are bound to settle
MaxCbCalls == 2     \* calls of circuitBreaker
MaxFailures == 2    \* largest maxFailures argument tried
MaxOps == 3         \* operations given to race, parallel, allSettled
MaxSeqOps == 5      \* operations given to sequence
MaxBatchOps == 3    \* operations given to batch
MaxBatchSize == 3   \* largest batchSize argument tried
MaxLen == 3         \* longest array given to a collection operator

Values == {"v1", "v2"}      \* values an operation may fulfil with
Errors == {"e1", "e2"}      \* errors an operation may reject with

Min(a, b) == IF a <= b THEN a ELSE b

(***************************************************************************)
(* Deferred results (promises).  A promise settles once: resolve and       *)
(* reject on a settled promise change nothing.                             *)
(***************************************************************************)
Pending == [state |-> "pending", value |-> "none"]
Fulfilled(v) == [state |-> "fulfilled", value |-> v]
Rejected(e) == [state |-> "rejected", value |-> e]

ResolveOverwrites(p, v) == Fulfilled(v)
Resolve(p, v) == IF p.state = "pending" THEN Fulfilled(v) ELSE p

Reject(p, e) == IF p.state = "pending" THEN Rejected(e) ELSE p

\* The outcome recorded for one settled invocation of the operation.
Ok(v) == [ok |-> TRUE, value |-> v]
Err(e) == [ok |-> FALSE, value |-> e]

VARIABLES
    now,          \* the clock (Date.now(), the timers' time base)
    \* ---- retry, retryWithDelay, retryWithBackoff, sequentialRetry
    rtFn,         \* which of the four functions was called ("none" before)
    rtMax,        \* its retries / maxRetries argument
    rtI,          \* its loop counter (i, or retries)
    rtBase,       \* baseDelay of retryWithBackoff
    rtDelay,      \* the delay passed to the next setTimeout
    rtCap,        \* maxDelay of retryWithBackoff
    rtPc,         \* "idle", "await" (operation in flight), "wait", "done"
    rtResult,     \* the promise returned to the caller
    rtInvoked,    \* number of invocations of the operation
    rtCalls,      \* outcomes of the settled invocations, in order
    rtWaits,      \* delays of the waits started, in order
    \* ---- timeout
    toPc,         \* "idle" before the call, "running" after it
    toTimer,      \* the timer: "none", "pending", "fired", "cleared"
    toDeadline,   \* when the timer is due
    toOp,         \* the operation: "none", "pending", "settled"
    toResult,     \* the promise returned to the caller
    toSettles,    \* how many times toResult changed state
    toEvents,     \* timer firing and operation settlement, in order
    \* ---- memoizeAsync
    mmCache,      \* cache: key -> index in mmInv of the stored promise, 0 absent
    mmInv,        \* invocations of fn: [args, p], p the promise fn returned
    mmCalls,      \* calls of the memoized function: [args, inv, found, result],
                  \* found the state of the stored promise the call met
    \* ---- debounceAsync
    dbMade,       \* debounceAsync(fn, delay) has returned the wrapper
    dbDelay,      \* its delay argument
    dbTimer,      \* the closure's timer: 0 is null, i the timer set by call i
    dbCalls,      \* calls of the wrapper: [time, deadline, timer, result];
                  \* call i passes the arguments i
    dbExecs,      \* executions of fn: [call, start, state, value]
    \* ---- throttleAsync
    thMade,       \* throttleAsync(fn, interval) has returned the wrapper
    thInterval,   \* its interval argument
    thLast,       \* lastCallTime
    thPending,    \* pendingPromise: 0 is null, q the q-th promise of thProms
    thPendingArgs,\* pendingArgs: 0 is null, c the arguments of call c
    thProms,      \* deferred executions: [deadline, timer, args, p]
    thCalls,      \* calls of the wrapper: [time, lastAt, kind, src, resumed];
                  \* call c passes the arguments c
    thExecs,      \* executions of fn: [args, start, origin, state, value]
    \* ---- circuitBreaker
    cbCalls,      \* calls of circuitBreaker, each with the locals it creates:
                  \* [maxFailures, cooldown, streak, closedAgain, inCooldown, failures,
                  \*  circuitOpen, invoked, timer, deadline, result, settledAt]
    \* ---- race, parallel, sequence, allSettled
    grFn,         \* which of the four was called ("none" before)
    grN,          \* the number of operations (inputs) it was given
    grOps,        \* the promises of the operations started, by index
    grLog,        \* starts and settlements, in order: [ev, i]
    grValues,     \* the result slots of Promise.all / Promise.allSettled
    grRemaining,  \* how many inputs these still wait for
    grI,          \* sequence: index of the operation awaited, 0 when none
    grLocal,      \* sequence: the local variable result
    grResult,     \* the promise returned to the caller
    \* ---- batch
    btCalled,     \* batch(fns, batchSize) has been called
    btSize,       \* its batchSize argument
    btOps,        \* the promises of the operations, by index
    btLog,        \* starts and settlements, in order: [ev, i]
    btBatches,    \* per batch: the promise of Promise.all(...).then(flat)
    btResult,     \* the promise returned to the caller
    \* ---- mapAsync .. forEachAsync
    coFn,         \* which collection operator was called ("none" before)
    coArray,      \* its array argument
    coI,          \* the loop counter i
    coPc,         \* "idle", "await" (callback in flight), "done"
    coLocal,      \* the local result array / accumulator
    coLog,        \* callback starts and settlements, in order: [ev, i]
    coResult      \* the promise returned to the caller

rtVars == <<rtFn, rtMax, rtI, rtBase, rtDelay, rtCap, rtPc, rtResult, rtInvoked,
            rtCalls, rtWaits>>

toVars == <<toPc, toTimer, toDeadline, toOp, toResult, toSettles, toEvents>>

mmVars == <<mmCache, mmInv, mmCalls>>

dbVars == <<dbMade, dbDelay, dbTimer, dbCalls, dbExecs>>

thVars == <<thMade, thInterval, thLast, thPending, thPendingArgs, thProms,
            thCalls, thExecs>>

cbVars == <<cbCalls>>

grVars == <<grFn, grN, grOps, grLog, grValues, grRemaining, grI, grLocal,
            grResult>>

btVars == <<btCalled, btSize, btOps, btLog, btBatches, btResult>>

coVars == <<coFn, coArray, coI, coPc, coLocal, coLog, coResult>>

vars == <<now, rtVars, toVars, mmVars, dbVars, thVars, cbVars, grVars, btVars,
          coVars>>

\* what an action of one combinator leaves alone
exceptRetry ==
    <<toVars, mmVars, dbVars, thVars,
      cbVars, grVars, btVars, coVars>>
exceptTimeout ==
    <<rtVars, mmVars, dbVars, thVars,
      cbVars, grVars, btVars, coVars>>
exceptMemo ==
    <<rtVars, toVars, dbVars, thVars,
      cbVars, grVars, btVars, coVars>>
exceptDebounce ==
    <<rtVars, toVars, mmVars, thVars,
      cbVars, grVars, btVars, coVars>>
exceptThrottle ==
    <<rtVars, toVars, mmVars, dbVars,
      cbVars, grVars, btVars, coVars>>
exceptBreaker ==
    <<rtVars, toVars, mmVars, dbVars,
      thVars, grVars, btVars, coVars>>
exceptGroup ==
    <<rtVars, toVars, mmVars, dbVars,
      thVars, cbVars, btVars, coVars>>
exceptBatch ==
    <<rtVars, toVars, mmVars, dbVars,
      thVars, cbVars, grVars, coVars>>
exceptCollection ==
    <<rtVars, toVars, mmVars, dbVars,
      thVars, cbVars, grVars, btVars>>

InitRetry ==
    /\ rtFn = "none" /\ rtMax = 0 /\ rtI = 0 /\ rtBase = 0 /\ rtDelay = 0
    /\ rtCap = 0
    /\ rtPc = "idle" /\ rtResult = Pending /\ rtInvoked = 0
    /\ rtCalls = <<>> /\ rtWaits = <<>>

InitTimeout ==
    /\ toPc = "idle" /\ toTimer = "none" /\ toDeadline = 0 /\ toOp = "none"
    /\ toResult = Pending /\ toSettles = 0 /\ toEvents = <<>>

(***************************************************************************)
(* Argument lists given to a memoized function, and JSON.stringify of      *)
(* them: inside an array undefined is written as null, so two different    *)
(* argument lists can have one key.                                        *)
(***************************************************************************)
ArgLists == {<<>>, <<"1">>, <<"2">>, <<"null">>, <<"undefined">>}

JsonOf(x) == IF x = "undefined" THEN "null" ELSE x

Stringify(args) == [i \in 1..Len(args) |-> JsonOf(args[i])]

Keys == {Stringify(a) : a \in ArgLists}

\* const cache = new Map()
InitMemo ==
    /\ mmCache = [k \in Keys |-> 0]
    /\ mmInv = <<>>
    /\ mmCalls = <<>>

InitDebounce ==
    /\ dbMade = FALSE /\ dbDelay = 0 /\ dbTimer = 0
    /\ dbCalls = <<>> /\ dbExecs = <<>>

InitThrottle ==
    /\ thMade = FALSE /\ thInterval = 0 /\ thLast = 0
    /\ thPending = 0 /\ thPendingArgs = 0
    /\ thProms = <<>> /\ thCalls = <<>> /\ thExecs = <<>>

InitBreaker == cbCalls = <<>>

InitGroup ==
    /\ grFn = "none" /\ grN = 0 /\ grOps = <<>> /\ grLog = <<>>
    /\ grValues = <<>> /\ grRemaining = 0 /\ grI = 0
    /\ grLocal = "undefined" /\ grResult = Pending

InitBatch ==
    /\ btCalled = FALSE /\ btSize = 0 /\ btOps = <<>> /\ btLog = <<>>
    /\ btBatches = <<>> /\ btResult = Pending

InitCollection ==
    /\ coFn = "none" /\ coArray = <<>> /\ coI = 0 /\ coPc = "idle"
    /\ coLocal = <<>> /\ coLog = <<>> /\ coResult = Pending

\* Date.now() is far greater than any interval: the clock starts at the
\* largest interval tried.
Init ==
    /\ now = MaxDuration
    /\ InitRetry
    /\ InitTimeout
    /\ InitMemo
    /\ InitDebounce
    /\ InitThrottle
    /\ InitBreaker
    /\ InitGroup
    /\ InitBatch
    /\ InitCollection

(***************************************************************************)
(* The clock.  A timer fires at its deadline: Tick is not enabled while a  *)
(* pending timer is due (TimerDue is defined once all timers are).         *)
(***************************************************************************)
TimerDue ==
    \/ toTimer = "pending" /\ toDeadline <= now
    \/ \E i \in 1..Len(dbCalls) :
          dbCalls[i].timer = "pending" /\ dbCalls[i].deadline <= now
    \/ \E q \in 1..Len(thProms) :
          thProms[q].timer = "pending" /\ thProms[q].deadline <= now
    \/ \E i \in 1..Len(cbCalls) :
          cbCalls[i].timer = "pending" /\ cbCalls[i].deadline <= now

\* A call of a throttled function suspended at 'await pendingPromise' can
\* resume: the promise it awaits has settled.
ThCanResume(c) ==
    /\ c \in 1..Len(thCalls)
    /\ thCalls[c].kind = "await" /\ ~thCalls[c].resumed
    /\ thProms[thCalls[c].src].p # Pending

\* Continuations of settled promises run before the event loop takes the
\* next timer: neither time nor a timer passes a continuation that is due.
ResumeDue == \E c \in 1..Len(thCalls) : ThCanResume(c)

Tick ==
    /\ now < MaxDuration + Horizon
    /\ ~TimerDue
    /\ ~ResumeDue
    /\ now' = now + 1
    /\ UNCHANGED <<rtVars, toVars, mmVars, dbVars, thVars, cbVars, grVars,
                   btVars, coVars>>

(***************************************************************************)
(* retry (lines 10-20).                                                    *)
(*   for (let i = 0; i < retries; i++)                                     *)
(*     try { return await fn(); }                                          *)
(*     catch (error) { if (i === retries - 1) throw error; }               *)
(* The loop test and the invocation that follows it run in one stretch.    *)
(***************************************************************************)
\* the head of retry's for loop, entered with loop counter i
RetryLoop(i, retries) ==
    /\ rtI' = i
    /\ IF i < retries
       THEN /\ rtPc' = "await" /\ rtInvoked' = rtInvoked + 1
            /\ UNCHANGED rtResult
       ELSE \* the loop ends and the function returns undefined
            /\ rtPc' = "done" /\ rtResult' = Resolve(rtResult, "undefined")
            /\ UNCHANGED rtInvoked

retry(retries) ==
    /\ rtPc = "idle"
    /\ rtFn' = "retry" /\ rtMax' = retries
    /\ RetryLoop(0, retries)
    /\ UNCHANGED <<now, exceptRetry, rtBase, rtDelay, rtCap, rtCalls, rtWaits>>

retryFulfils(v) ==
    /\ rtFn = "retry" /\ rtPc = "await"
    /\ rtCalls' = Append(rtCalls, Ok(v))
    /\ rtResult' = Resolve(rtResult, v)
    /\ rtPc' = "done"
    /\ UNCHANGED <<now, exceptRetry, rtFn, rtMax, rtI, rtBase, rtDelay, rtCap, rtInvoked, rtWaits>>

\* a catch block that never rethrows
retryRejectsSwallows(e) ==
    /\ rtFn = "retry" /\ rtPc = "await"
    /\ rtCalls' = Append(rtCalls, Err(e))
    /\ RetryLoop(rtI + 1, rtMax)
    /\ UNCHANGED <<now, exceptRetry, rtFn, rtMax, rtBase, rtDelay, rtCap, rtWaits>>

retryRejects(e) ==
    /\ rtFn = "retry" /\ rtPc = "await"
    /\ rtCalls' = Append(rtCalls, Err(e))
    /\ IF rtI = rtMax - 1
       THEN /\ rtResult' = Reject(rtResult, e)
            /\ rtPc' = "done"
            /\ UNCHANGED <<rtI, rtInvoked>>
       ELSE RetryLoop(rtI + 1, rtMax)
    /\ UNCHANGED <<now, exceptRetry, rtFn, rtMax, rtBase, rtDelay, rtCap, rtWaits>>

(***************************************************************************)
(* retryWithBackoff (354-367), retryWithDelay (376-387) and                *)
(* sequentialRetry (396-405): a failed attempt is followed by a wait, and  *)
(* the loop test comes after the wait.                                     *)
(***************************************************************************)
RetryLimitExceeded == "Retry limit exceeded"

\* a loop that gives up with the last attempt's own error
DelayLoopRethrows(n, maxRetries) ==
    /\ rtI' = n
    /\ IF n < maxRetries
       THEN /\ rtPc' = "await" /\ rtInvoked' = rtInvoked + 1
            /\ UNCHANGED rtResult
       ELSE /\ rtPc' = "done"
            /\ rtResult' = Reject(rtResult,
                   IF rtCalls = <<>> THEN RetryLimitExceeded
                   ELSE rtCalls[Len(rtCalls)].value)
            /\ UNCHANGED rtInvoked

\* the head of the while / for loop, entered with counter n
DelayLoop(n, maxRetries) ==
    /\ rtI' = n
    /\ IF n < maxRetries
       THEN /\ rtPc' = "await" /\ rtInvoked' = rtInvoked + 1
            /\ UNCHANGED rtResult
       ELSE \* throw new Error('Retry limit exceeded')
            /\ rtPc' = "done" /\ rtResult' = Reject(rtResult, RetryLimitExceeded)
            /\ UNCHANGED rtInvoked

retryWithBackoff(maxRetries, baseDelay, maxDelay) ==
    /\ rtPc = "idle"
    /\ rtFn' = "retryWithBackoff" /\ rtMax' = maxRetries
    /\ rtBase' = baseDelay /\ rtDelay' = baseDelay /\ rtCap' = maxDelay
    /\ DelayLoop(0, maxRetries)
    /\ UNCHANGED <<now, exceptRetry, rtCalls, rtWaits>>

retryWithDelay(maxRetries, delay) ==
    /\ rtPc = "idle"
    /\ rtFn' = "retryWithDelay" /\ rtMax' = maxRetries
    /\ rtDelay' = delay
    /\ DelayLoop(0, maxRetries)
    /\ UNCHANGED <<now, exceptRetry, rtBase, rtCap, rtCalls, rtWaits>>

sequentialRetry(retries, delay) ==
    /\ rtPc = "idle"
    /\ rtFn' = "sequentialRetry" /\ rtMax' = retries
    /\ rtDelay' = delay
    /\ DelayLoop(0, retries)
    /\ UNCHANGED <<now, exceptRetry, rtBase, rtCap, rtCalls, rtWaits>>

DelayFns == {"retryWithBackoff", "retryWithDelay", "sequentialRetry"}

\* return await asyncOperation()
delayedFulfils(v) ==
    /\ rtFn \in DelayFns /\ rtPc = "await"
    /\ rtCalls' = Append(rtCalls, Ok(v))
    /\ rtResult' = Resolve(rtResult, v)
    /\ rtPc' = "done"
    /\ UNCHANGED <<now, exceptRetry, rtFn, rtMax, rtI, rtBase, rtDelay, rtCap, rtInvoked, rtWaits>>

\* a catch block that gives up at once when the last attempt failed
delayedRejectsNoLastWait(e) ==
    /\ rtFn \in DelayFns /\ rtPc = "await"
    /\ rtCalls' = Append(rtCalls, Err(e))
    /\ IF rtI + 1 < rtMax
       THEN /\ rtWaits' = Append(rtWaits, rtDelay)
            /\ rtPc' = "wait"
            /\ UNCHANGED <<rtI, rtResult>>
       ELSE /\ rtPc' = "done" /\ rtI' = rtI + 1
            /\ rtResult' = Reject(rtResult, RetryLimitExceeded)
            /\ UNCHANGED rtWaits
    /\ UNCHANGED <<now, exceptRetry, rtFn, rtMax, rtBase, rtDelay, rtCap, rtInvoked>>

\* catch: (retries++;) await new Promise(resolve => setTimeout(resolve, delay))
delayedRejects(e) ==
    /\ rtFn \in DelayFns /\ rtPc = "await"
    /\ rtCalls' = Append(rtCalls, Err(e))
    /\ rtWaits' = Append(rtWaits, rtDelay)
    /\ rtPc' = "wait"
    /\ UNCHANGED <<now, exceptRetry, rtFn, rtMax, rtI, rtBase, rtDelay, rtCap, rtInvoked, rtResult>>

\* delay = Math.min(delay * 2, maxDelay)
NextDelay(delay, maxDelay) == Min(delay * 2, maxDelay)

\* the wait is over: (the delay doubles,) the counter steps, the loop test
waitElapses ==
    /\ rtFn \in DelayFns /\ rtPc = "wait"
    /\ rtDelay' = IF rtFn = "retryWithBackoff"
                  THEN NextDelay(rtDelay, rtCap) ELSE rtDelay
    /\ DelayLoop(rtI + 1, rtMax)
    /\ UNCHANGED <<now, exceptRetry, rtFn, rtMax, rtBase, rtCap, rtCalls, rtWaits>>

NextRetry ==
    \/ \E m \in 0..MaxAttempts : retry(m)
    \/ \E v \in Values : retryFulfils(v)
    \/ \E e \in Errors : retryRejects(e)
    \/ \E m \in 0..MaxAttempts, b \in 0..MaxBaseDelay, c \in 0..MaxCapDelay :
          retryWithBackoff(m, b, c)
    \/ \E m \in 0..MaxAttempts, d \in 0..MaxBaseDelay : retryWithDelay(m, d)
    \/ \E m \in 0..MaxAttempts, d \in 0..MaxBaseDelay : sequentialRetry(m, d)
    \/ \E v \in Values : delayedFulfils(v)
    \/ \E e \in Errors : delayedRejects(e)
    \/ waitElapses

SpecRetry == Init /\ [][NextRetry]_vars

(***************************************************************************)
(* timeout (lines 31-47).                                                  *)
(*   new Promise((resolve, reject) => {                                    *)
(*     const timer = setTimeout(() => reject(new Error(...)), timeout);    *)
(*     fn().then(result => { clearTimeout(timer); resolve(result); },      *)
(*               error  => { clearTimeout(timer); reject(error); }); })    *)
(***************************************************************************)
OperationTimedOut == "Operation timed out"

\* clearTimeout: cancels a pending timer, does nothing to any other
ClearTimeout(t) == IF t = "pending" THEN "cleared" ELSE t

Changed(p, q) == IF p = q THEN 0 ELSE 1

timeout(d) ==
    /\ toPc = "idle"
    /\ toPc' = "running"
    /\ toTimer' = "pending" /\ toDeadline' = now + d
    /\ toOp' = "pending"
    /\ UNCHANGED <<now, exceptTimeout, toResult, toSettles, toEvents>>

\* the setTimeout callback: reject(new Error('Operation timed out'))
timeoutTimerFires ==
    /\ toTimer = "pending" /\ toDeadline <= now
    /\ toTimer' = "fired"
    /\ toResult' = Reject(toResult, OperationTimedOut)
    /\ toSettles' = toSettles + Changed(toResult, toResult')
    /\ toEvents' = Append(toEvents, [kind |-> "timer", ok |-> FALSE,
                                     value |-> OperationTimedOut])
    /\ UNCHANGED <<now, exceptTimeout, toPc, toDeadline, toOp>>

\* fn() fulfils: clearTimeout(timer); resolve(result)
timeoutOpFulfils(v) ==
    /\ toOp = "pending"
    /\ toOp' = "settled"
    /\ toTimer' = ClearTimeout(toTimer)
    /\ toResult' = Resolve(toResult, v)
    /\ toSettles' = toSettles + Changed(toResult, toResult')
    /\ toEvents' = Append(toEvents, [kind |-> "op", ok |-> TRUE, value |-> v])
    /\ UNCHANGED <<now, exceptTimeout, toPc, toDeadline>>

\* fn() rejects: clearTimeout(timer); reject(error)
timeoutOpRejects(e) ==
    /\ toOp = "pending"
    /\ toOp' = "settled"
    /\ toTimer' = ClearTimeout(toTimer)
    /\ toResult' = Reject(toResult, e)
    /\ toSettles' = toSettles + Changed(toResult, toResult')
    /\ toEvents' = Append(toEvents, [kind |-> "op", ok |-> FALSE, value |-> e])
    /\ UNCHANGED <<now, exceptTimeout, toPc, toDeadline>>

NextTimeout ==
    \/ \E d \in 0..MaxDuration : timeout(d)
    \/ timeoutTimerFires
    \/ \E v \in Values : timeoutOpFulfils(v)
    \/ \E e \in Errors : timeoutOpRejects(e)
    \/ Tick

SpecTimeout == Init /\ [][NextTimeout]_vars

(***************************************************************************)
(* memoizeAsync (lines 99-108).                                            *)
(*   const key = JSON.stringify(args);                                     *)
(*   if (!cache.has(key)) cache.set(key, fn(...args));                     *)
(*   return cache.get(key);                                                *)
(* The wrapper is async: its own promise follows the stored promise.       *)
(***************************************************************************)
\* a cache that only counts results that have settled
CacheHasSettled(key) == mmCache[key] # 0 /\ mmInv[mmCache[key]].p # Pending

\* cache.has(key)
CacheHas(key) == mmCache[key] # 0

memoized(args) ==
    /\ Len(mmCalls) < MaxMemoCalls
    /\ LET key == Stringify(args) IN
       /\ IF ~CacheHas(key)
          THEN \* cache.set(key, fn(...args))
               /\ mmInv' = Append(mmInv, [args |-> args, p |-> Pending])
               /\ mmCache' = [mmCache EXCEPT ![key] = Len(mmInv) + 1]
          ELSE UNCHANGED <<mmInv, mmCache>>
       /\ mmCalls' = Append(mmCalls, [args |-> args, inv |-> mmCache'[key],
                                      found |-> IF CacheHas(key)
                                                THEN mmInv[mmCache[key]].p.state
                                                ELSE "none",
                                      result |-> Pending])
    /\ UNCHANGED <<now, exceptMemo>>

\* the promise returned by fn fulfils
memoFnFulfils(i, v) ==
    /\ i \in 1..Len(mmInv) /\ mmInv[i].p = Pending
    /\ mmInv' = [mmInv EXCEPT ![i].p = Resolve(@, v)]
    /\ UNCHANGED <<now, exceptMemo, mmCache, mmCalls>>

\* a cache that drops the entry of an invocation that failed
memoFnRejectsEvicts(i, e) ==
    /\ i \in 1..Len(mmInv) /\ mmInv[i].p = Pending
    /\ mmInv' = [mmInv EXCEPT ![i].p = Reject(@, e)]
    /\ mmCache' = [k \in Keys |-> IF mmCache[k] = i THEN 0 ELSE mmCache[k]]
    /\ UNCHANGED <<now, exceptMemo, mmCalls>>

\* the promise returned by fn rejects
memoFnRejects(i, e) ==
    /\ i \in 1..Len(mmInv) /\ mmInv[i].p = Pending
    /\ mmInv' = [mmInv EXCEPT ![i].p = Reject(@, e)]
    /\ UNCHANGED <<now, exceptMemo, mmCache, mmCalls>>

\* the wrapper's promise takes the outcome of the promise it returned
memoCallSettles(c) ==
    /\ c \in 1..Len(mmCalls) /\ mmCalls[c].result = Pending
    /\ mmInv[mmCalls[c].inv].p # Pending
    /\ mmCalls' = [mmCalls EXCEPT ![c].result = mmInv[mmCalls[c].inv].p]
    /\ UNCHANGED <<now, exceptMemo, mmCache, mmInv>>

NextMemo ==
    \/ \E a \in ArgLists : memoized(a)
    \/ \E i \in 1..MaxMemoCalls, v \in Values : memoFnFulfils(i, v)
    \/ \E i \in 1..MaxMemoCalls, e \in Errors : memoFnRejects(i, e)
    \/ \E c \in 1..MaxMemoCalls : memoCallSettles(c)

SpecMemo == Init /\ [][NextMemo]_vars

(***************************************************************************)
(* debounceAsync (lines 120-133).                                          *)
(*   let timer = null;                                                     *)
(*   return (...args) => {                                                 *)
(*     if (timer) clearTimeout(timer);                                     *)
(*     return new Promise((resolve) => {                                   *)
(*       timer = setTimeout(async () => {                                  *)
(*         resolve(await fn(...args));                                     *)
(*         timer = null;                                                   *)
(*       }, delay); }); };                                                 *)
(***************************************************************************)
debounceAsync(delay) ==
    /\ ~dbMade
    /\ dbMade' = TRUE /\ dbDelay' = delay /\ dbTimer' = 0
    /\ UNCHANGED <<now, exceptDebounce, dbCalls, dbExecs>>

\* a call of the wrapper: clear the timer the closure holds, set a new one
debounced ==
    /\ dbMade /\ Len(dbCalls) < MaxDebCalls
    /\ LET cleared == IF dbTimer # 0
                      THEN [dbCalls EXCEPT ![dbTimer].timer = ClearTimeout(@)]
                      ELSE dbCalls
       IN dbCalls' = Append(cleared, [time |-> now, deadline |-> now + dbDelay,
                                      timer |-> "pending", result |-> Pending])
    /\ dbTimer' = Len(dbCalls) + 1
    /\ UNCHANGED <<now, exceptDebounce, dbMade, dbDelay, dbExecs>>

\* the timer of call i fires: the callback runs up to await fn(...args)
debTimerFires(i) ==
    /\ i \in 1..Len(dbCalls)
    /\ dbCalls[i].timer = "pending" /\ dbCalls[i].deadline <= now
    /\ dbCalls' = [dbCalls EXCEPT ![i].timer = "fired"]
    /\ dbExecs' = Append(dbExecs, [call |-> i, start |-> now,
                                   state |-> "running", value |-> "none"])
    /\ UNCHANGED <<now, exceptDebounce, dbMade, dbDelay, dbTimer>>

\* fn fulfils: resolve(value); timer = null
debFnFulfils(x, v) ==
    /\ x \in 1..Len(dbExecs) /\ dbExecs[x].state = "running"
    /\ dbExecs' = [dbExecs EXCEPT ![x].state = "fulfilled", ![x].value = v]
    /\ dbCalls' = [dbCalls EXCEPT ![dbExecs[x].call].result = Resolve(@, v)]
    /\ dbTimer' = 0
    /\ UNCHANGED <<now, exceptDebounce, dbMade, dbDelay>>

\* fn rejects: await throws inside the callback, which ends there
debFnRejects(x, e) ==
    /\ x \in 1..Len(dbExecs) /\ dbExecs[x].state = "running"
    /\ dbExecs' = [dbExecs EXCEPT ![x].state = "rejected", ![x].value = e]
    /\ UNCHANGED <<now, exceptDebounce, dbMade, dbDelay, dbTimer, dbCalls>>

NextDebounce ==
    \/ \E d \in 1..MaxDuration : debounceAsync(d)
    \/ debounced
    \/ \E i \in 1..MaxDebCalls : debTimerFires(i)
    \/ \E x \in 1..MaxDebCalls, v \in Values : debFnFulfils(x, v)
    \/ \E x \in 1..MaxDebCalls, e \in Errors : debFnRejects(x, e)
    \/ Tick

SpecDebounce == Init /\ [][NextDebounce]_vars

(***************************************************************************)
(* throttleAsync (lines 146-183).                                          *)
(***************************************************************************)
throttleAsync(interval) ==
    /\ ~thMade
    /\ thMade' = TRUE /\ thInterval' = interval
    /\ thLast' = 0 /\ thPending' = 0 /\ thPendingArgs' = 0
    /\ UNCHANGED <<now, exceptThrottle, thProms, thCalls, thExecs>>

\* executeFn (151-154): lastCallTime = Date.now(); return fn(...args).
\* origin is 0 for a direct call and q for the timer of promise q.
executeFn(args, origin) ==
    /\ thLast' = now
    /\ thExecs' = Append(thExecs, [args |-> args, start |-> now,
                                   origin |-> origin, state |-> "running",
                                   value |-> "none"])

\* a call of the wrapper (156-182), with the arguments c
throttled ==
    /\ thMade /\ Len(thCalls) < MaxThCalls
    /\ LET c == Len(thCalls) + 1 IN
       IF now - thLast >= thInterval
       THEN IF thPending # 0
            THEN \* const result = await pendingPromise; ...
                 /\ thCalls' = Append(thCalls, [time |-> now, lastAt |-> thLast,
                                 kind |-> "await", src |-> thPending,
                                 resumed |-> FALSE])
                 /\ UNCHANGED <<thLast, thExecs, thPending, thPendingArgs,
                                thProms>>
            ELSE \* return executeFn(...args)
                 /\ executeFn(c, 0)
                 /\ thCalls' = Append(thCalls, [time |-> now, lastAt |-> thLast,
                                 kind |-> "immediate", src |-> Len(thExecs) + 1,
                                 resumed |-> FALSE])
                 /\ UNCHANGED <<thPending, thPendingArgs, thProms>>
       ELSE /\ thPendingArgs' = c
            /\ IF thPending = 0
               THEN \* setTimeout(..., interval - (now - lastCallTime))
                    /\ thProms' = Append(thProms,
                          [deadline |-> now + (thInterval - (now - thLast)),
                           timer |-> "pending", args |-> c, p |-> Pending])
                    /\ thPending' = Len(thProms) + 1
               ELSE UNCHANGED <<thProms, thPending>>
            /\ thCalls' = Append(thCalls, [time |-> now, lastAt |-> thLast,
                            kind |-> "deferred", src |-> thPending',
                            resumed |-> FALSE])
            /\ UNCHANGED <<thLast, thExecs>>
    /\ UNCHANGED <<now, exceptThrottle, thMade, thInterval>>

\* the timer of promise q fires: await executeFn(...(pendingArgs || args))
thTimerFires(q) ==
    /\ q \in 1..Len(thProms)
    /\ ~ResumeDue
    /\ thProms[q].timer = "pending" /\ thProms[q].deadline <= now
    /\ thProms' = [thProms EXCEPT ![q].timer = "fired"]
    /\ executeFn(IF thPendingArgs # 0 THEN thPendingArgs ELSE thProms[q].args, q)
    /\ UNCHANGED <<now, exceptThrottle, thMade, thInterval, thPending,
                   thPendingArgs, thCalls>>

\* a timer callback that resolves the promise but leaves it in
\* pendingPromise
thFnFulfilsKeepsPending(x, v) ==
    /\ x \in 1..Len(thExecs) /\ thExecs[x].state = "running"
    /\ thExecs' = [thExecs EXCEPT ![x].state = "fulfilled", ![x].value = v]
    /\ IF thExecs[x].origin # 0
       THEN thProms' = [thProms EXCEPT ![thExecs[x].origin].p = Resolve(@, v)]
       ELSE UNCHANGED thProms
    /\ UNCHANGED <<now, exceptThrottle, thMade, thInterval, thLast, thPending,
                   thPendingArgs, thCalls>>

\* fn fulfils.  In the timer callback: pendingPromise = null; resolve(result).
thFnFulfils(x, v) ==
    /\ x \in 1..Len(thExecs) /\ thExecs[x].state = "running"
    /\ thExecs' = [thExecs EXCEPT ![x].state = "fulfilled", ![x].value = v]
    /\ IF thExecs[x].origin # 0
       THEN /\ thPending' = 0
            /\ thProms' = [thProms EXCEPT ![thExecs[x].origin].p = Resolve(@, v)]
       ELSE UNCHANGED <<thPending, thProms>>
    /\ UNCHANGED <<now, exceptThrottle, thMade, thInterval, thLast,
                   thPendingArgs, thCalls>>

\* fn rejects.  In the timer callback the await throws and the callback
\* ends: pendingPromise is neither cleared nor settled.
thFnRejects(x, e) ==
    /\ x \in 1..Len(thExecs) /\ thExecs[x].state = "running"
    /\ thExecs' = [thExecs EXCEPT ![x].state = "rejected", ![x].value = e]
    /\ UNCHANGED <<now, exceptThrottle, thMade, thInterval, thLast, thPending,
                   thPendingArgs, thProms, thCalls>>

\* call c, suspended at 'await pendingPromise' (163), resumes once that
\* promise has settled: pendingPromise = null; return result
thAwaitResumes(c) ==
    /\ ThCanResume(c)
    /\ thCalls' = [thCalls EXCEPT ![c].resumed = TRUE]
    /\ thPending' = 0
    /\ UNCHANGED <<now, exceptThrottle, thMade, thInterval, thLast,
                   thPendingArgs, thProms, thExecs>>

\* what the promise returned by call c has settled to
thResult(c) ==
    IF thCalls[c].kind = "immediate"
    THEN LET x == thExecs[thCalls[c].src] IN
         IF x.state = "fulfilled" THEN Fulfilled(x.value)
         ELSE IF x.state = "rejected" THEN Rejected(x.value)
         ELSE Pending
    ELSE IF thCalls[c].kind = "await" /\ ~thCalls[c].resumed
    THEN Pending
    ELSE thProms[thCalls[c].src].p

NextThrottle ==
    \/ \E d \in 1..MaxDuration : throttleAsync(d)
    \/ throttled
    \/ \E q \in 1..MaxThCalls : thTimerFires(q)
    \/ \E x \in 1..MaxThCalls, v \in Values : thFnFulfils(x, v)
    \/ \E x \in 1..MaxThCalls, e \in Errors : thFnRejects(x, e)
    \/ \E c \in 1..MaxThCalls : thAwaitResumes(c)
    \/ Tick

SpecThrottle == Init /\ [][NextThrottle]_vars

\* A caller that makes its calls one at a time, each awaited before the
\* next is made (test, lines 451-465): a call is made only once the
\* promises of all earlier calls have settled.
throttledAwaited ==
    /\ \A c \in 1..Len(thCalls) : thResult(c) # Pending
    /\ throttled

\* such a caller, with an operation that always succeeds
NextThrottleAwaited ==
    \/ \E d \in 1..MaxDuration : throttleAsync(d)
    \/ throttledAwaited
    \/ \E q \in 1..MaxThCalls : thTimerFires(q)
    \/ \E x \in 1..MaxThCalls, v \in Values : thFnFulfils(x, v)
    \/ Tick

SpecThrottleAwaited == Init /\ [][NextThrottleAwaited]_vars

\* A call made early enough for its timer to fall inside the time explored.
throttledInTime ==
    /\ Len(thCalls) < MaxLiveCalls
    /\ now + thInterval <= MaxDuration + Horizon
    /\ throttled

\* fn settles, one way or the other
thFnSettles ==
    \/ \E x \in 1..MaxThCalls, v \in Values : thFnFulfils(x, v)
    \/ \E x \in 1..MaxThCalls, e \in Errors : thFnRejects(x, e)

NextThrottleLive ==
    \/ \E d \in 1..MaxDuration : throttleAsync(d)
    \/ throttledInTime
    \/ \E q \in 1..MaxThCalls : thTimerFires(q)
    \/ thFnSettles
    \/ \E c \in 1..MaxThCalls : thAwaitResumes(c)
    \/ Tick

\* Time passes, due timers fire, due continuations run, and every
\* execution of fn settles; nobody is bound to call the wrapper.
SpecThrottleLive ==
    /\ Init /\ [][NextThrottleLive]_vars
    /\ WF_vars(Tick)
    /\ WF_vars(\E q \in 1..MaxThCalls : thTimerFires(q))
    /\ WF_vars(\E c \in 1..MaxThCalls : thAwaitResumes(c))
    /\ WF_vars(thFnSettles)

(***************************************************************************)
(* circuitBreaker (lines 414-434).                                         *)
(*   let failures = 0; let circuitOpen = false;                            *)
(*   return async function () {                                            *)
(*     if (circuitOpen) throw new Error('Circuit is open');                *)
(*     try { const result = await asyncOperation();                        *)
(*           failures = 0; return result; }                                *)
(*     catch (error) {                                                     *)
(*       failures++;                                                       *)
(*       if (failures >= maxFailures) { circuitOpen = true;                *)
(*         setTimeout(() => { circuitOpen = false; failures = 0; },        *)
(*                    cooldownPeriod); }                                   *)
(*       throw error; } }();                                               *)
(* failures and circuitOpen are locals of circuitBreaker: every call has   *)
(* its own, and the inner function runs once, at once.                     *)
(***************************************************************************)
CircuitIsOpen == "Circuit is open"

\* how many of the calls just before call n + 1 have already failed with
\* the operation's error
RECURSIVE FailedStreak(_)
FailedStreak(n) ==
    IF n = 0 THEN 0
    ELSE IF /\ cbCalls[n].result.state = "rejected"
            /\ cbCalls[n].result.value \in Errors
         THEN 1 + FailedStreak(n - 1)
         ELSE 0

\* a breaker whose count and flag outlive the call: a call starts with
\* those the call before it left
circuitBreakerKeepsState(maxFailures, cooldownPeriod) ==
    /\ Len(cbCalls) < MaxCbCalls
    /\ \A k \in 1..Len(cbCalls) :
          /\ cbCalls[k].maxFailures = maxFailures
          /\ cbCalls[k].cooldown = cooldownPeriod
    /\ LET n == Len(cbCalls)
           failures == IF n = 0 THEN 0 ELSE cbCalls[n].failures
           circuitOpen == IF n = 0 THEN FALSE ELSE cbCalls[n].circuitOpen
       IN cbCalls' = Append(cbCalls,
             [maxFailures |-> maxFailures, cooldown |-> cooldownPeriod,
              streak |-> FailedStreak(n),
              closedAgain |-> /\ \E k \in 1..n : cbCalls[k].timer = "fired"
                              /\ \A k \in 1..n : cbCalls[k].timer # "pending",
              inCooldown |-> /\ n > 0
                             /\ cbCalls[n].result # Pending
                             /\ now < cbCalls[n].settledAt + cooldownPeriod,
              failures |-> failures, circuitOpen |-> circuitOpen,
              invoked |-> ~circuitOpen,
              timer |-> "none", deadline |-> 0,
              result |-> IF circuitOpen THEN Rejected(CircuitIsOpen) ELSE Pending,
              settledAt |-> 0])
    /\ UNCHANGED <<now, exceptBreaker>>

\* The caller guards one operation with one maxFailures and one cooldown:
\* every call passes the arguments of the first.  streak, inCooldown and
\* closedAgain (a cooldown timer has fired and none is running) record what
\* had happened when the call was made.
circuitBreaker(maxFailures, cooldownPeriod) ==
    /\ Len(cbCalls) < MaxCbCalls
    /\ \A k \in 1..Len(cbCalls) :
          /\ cbCalls[k].maxFailures = maxFailures
          /\ cbCalls[k].cooldown = cooldownPeriod
    /\ LET failures == 0
           circuitOpen == FALSE
           n == Len(cbCalls)
       IN cbCalls' = Append(cbCalls,
             [maxFailures |-> maxFailures, cooldown |-> cooldownPeriod,
              streak |-> FailedStreak(n),
              closedAgain |-> /\ \E k \in 1..n : cbCalls[k].timer = "fired"
                              /\ \A k \in 1..n : cbCalls[k].timer # "pending",
              inCooldown |-> /\ n > 0
                             /\ cbCalls[n].result # Pending
                             /\ now < cbCalls[n].settledAt + cooldownPeriod,
              failures |-> failures, circuitOpen |-> circuitOpen,
              invoked |-> ~circuitOpen,
              timer |-> "none", deadline |-> 0,
              result |-> IF circuitOpen THEN Rejected(CircuitIsOpen) ELSE Pending,
              settledAt |-> 0])
    /\ UNCHANGED <<now, exceptBreaker>>

\* asyncOperation() fulfils: failures = 0; return result
cbOpFulfils(i, v) ==
    /\ i \in 1..Len(cbCalls)
    /\ cbCalls[i].invoked /\ cbCalls[i].result = Pending
    /\ cbCalls' = [cbCalls EXCEPT ![i].failures = 0,
                                  ![i].result = Resolve(@, v),
                                  ![i].settledAt = now]
    /\ UNCHANGED <<now, exceptBreaker>>

\* a catch block that opens the circuit at the first failure
cbOpRejectsOpensAtOnce(i, e) ==
    /\ i \in 1..Len(cbCalls)
    /\ cbCalls[i].invoked /\ cbCalls[i].result = Pending
    /\ cbCalls' = [cbCalls EXCEPT
          ![i].failures = @ + 1,
          ![i].circuitOpen = TRUE,
          ![i].timer = "pending",
          ![i].deadline = now + cbCalls[i].cooldown,
          ![i].result = Reject(@, e),
          ![i].settledAt = now]
    /\ UNCHANGED <<now, exceptBreaker>>

\* asyncOperation() rejects: the catch block
cbOpRejects(i, e) ==
    /\ i \in 1..Len(cbCalls)
    /\ cbCalls[i].invoked /\ cbCalls[i].result = Pending
    /\ LET failures == cbCalls[i].failures + 1
           opens == failures >= cbCalls[i].maxFailures
       IN cbCalls' = [cbCalls EXCEPT
             ![i].failures = failures,
             ![i].circuitOpen = IF opens THEN TRUE ELSE @,
             ![i].timer = IF opens THEN "pending" ELSE @,
             ![i].deadline = IF opens THEN now + cbCalls[i].cooldown ELSE @,
             ![i].result = Reject(@, e),
             ![i].settledAt = now]
    /\ UNCHANGED <<now, exceptBreaker>>

\* a cooldown timer that closes the circuit but keeps the count
cbCooldownEndsKeepsCount(i) ==
    /\ i \in 1..Len(cbCalls)
    /\ cbCalls[i].timer = "pending" /\ cbCalls[i].deadline <= now
    /\ cbCalls' = [cbCalls EXCEPT ![i].timer = "fired",
                                  ![i].circuitOpen = FALSE]
    /\ UNCHANGED <<now, exceptBreaker>>

\* the cooldown timer: circuitOpen = false; failures = 0
cbCooldownEnds(i) ==
    /\ i \in 1..Len(cbCalls)
    /\ cbCalls[i].timer = "pending" /\ cbCalls[i].deadline <= now
    /\ cbCalls' = [cbCalls EXCEPT ![i].timer = "fired",
                                  ![i].circuitOpen = FALSE,
                                  ![i].failures = 0]
    /\ UNCHANGED <<now, exceptBreaker>>

NextBreaker ==
    \/ \E m \in 1..MaxFailures, d \in 1..MaxDuration : circuitBreaker(m, d)
    \/ \E i \in 1..MaxCbCalls, v \in Values : cbOpFulfils(i, v)
    \/ \E i \in 1..MaxCbCalls, e \in Errors : cbOpRejects(i, e)
    \/ \E i \in 1..MaxCbCalls : cbCooldownEnds(i)
    \/ Tick

SpecBreaker == Init /\ [][NextBreaker]_vars

(***************************************************************************)
(* race (57-59), parallel (85-87), sequence (69-75), allSettled (223-225). *)
(*   race:       Promise.race(fns.map(fn => fn()))                         *)
(*   parallel:   Promise.all(fns.map(fn => fn()))                          *)
(*   sequence:   for (const fn of fns) result = await fn(); return result  *)
(*   allSettled: Promise.allSettled(promises)                              *)
(* A settlement in grLog is the delivery of an operation's outcome to the  *)
(* combinator: the reaction it registered runs, in settlement order, after *)
(* the synchronous stretch that started the operations.                    *)
(***************************************************************************)
\* fns.map(fn => fn()): every operation is invoked, in list order
StartAll(n) == [k \in 1..n |-> [ev |-> "start", i |-> k]]

AllPending(n) == [k \in 1..n |-> Pending]

Settle(i) == [ev |-> "settle", i |-> i]

race(n) ==
    /\ grFn = "none"
    /\ grFn' = "race" /\ grN' = n
    /\ grOps' = AllPending(n)
    /\ grLog' = StartAll(n)
    /\ UNCHANGED <<grValues, grRemaining, grI, grLocal, grResult>>
    /\ UNCHANGED <<now, exceptGroup>>

\* Promise.race: the first operation to fulfil resolves the result
raceOpFulfils(i, v) ==
    /\ grFn = "race" /\ i \in 1..Len(grOps) /\ grOps[i].state = "pending"
    /\ grOps' = [grOps EXCEPT ![i] = Fulfilled(v)]
    /\ grLog' = Append(grLog, Settle(i))
    /\ grResult' = Resolve(grResult, v)
    /\ UNCHANGED <<grFn, grN, grValues, grRemaining, grI, grLocal>>
    /\ UNCHANGED <<now, exceptGroup>>

\* a race that only a fulfilment can win
raceOpRejectsIgnored(i, e) ==
    /\ grFn = "race" /\ i \in 1..Len(grOps) /\ grOps[i].state = "pending"
    /\ grOps' = [grOps EXCEPT ![i] = Rejected(e)]
    /\ grLog' = Append(grLog, Settle(i))
    /\ UNCHANGED <<grFn, grN, grValues, grRemaining, grI, grLocal, grResult>>
    /\ UNCHANGED <<now, exceptGroup>>

\* Promise.race: the first operation to reject rejects the result
raceOpRejects(i, e) ==
    /\ grFn = "race" /\ i \in 1..Len(grOps) /\ grOps[i].state = "pending"
    /\ grOps' = [grOps EXCEPT ![i] = Rejected(e)]
    /\ grLog' = Append(grLog, Settle(i))
    /\ grResult' = Reject(grResult, e)
    /\ UNCHANGED <<grFn, grN, grValues, grRemaining, grI, grLocal>>
    /\ UNCHANGED <<now, exceptGroup>>

NextRace ==
    \/ \E n \in 0..MaxOps : race(n)
    \/ \E i \in 1..MaxOps, v \in Values : raceOpFulfils(i, v)
    \/ \E i \in 1..MaxOps, e \in Errors : raceOpRejects(i, e)

SpecRace == Init /\ [][NextRace]_vars

\* the array a combinator resolves with once every slot is filled
ValuesOf(slots) == [k \in 1..Len(slots) |-> slots[k].value]

\* a Promise.all that stores each value in the first free slot
AllStoreInArrivalOrder(slots, i, v) ==
    LET k == CHOOSE j \in 1..Len(slots) :
                 /\ slots[j].state = "pending"
                 /\ \A h \in 1..(j - 1) : slots[h].state # "pending"
    IN [slots EXCEPT ![k] = Fulfilled(v)]

\* Promise.all stores the value of input i in slot i
AllStore(slots, i, v) == [slots EXCEPT ![i] = Fulfilled(v)]

parallel(n) ==
    /\ grFn = "none"
    /\ grFn' = "parallel" /\ grN' = n
    /\ grOps' = AllPending(n)
    /\ grLog' = StartAll(n)
    /\ grValues' = AllPending(n) /\ grRemaining' = n
    /\ grResult' = IF n = 0 THEN Fulfilled(<<>>) ELSE Pending
    /\ UNCHANGED <<grI, grLocal>>
    /\ UNCHANGED <<now, exceptGroup>>

parallelOpFulfils(i, v) ==
    /\ grFn = "parallel" /\ i \in 1..Len(grOps) /\ grOps[i].state = "pending"
    /\ grOps' = [grOps EXCEPT ![i] = Fulfilled(v)]
    /\ grLog' = Append(grLog, Settle(i))
    /\ grValues' = AllStore(grValues, i, v)
    /\ grRemaining' = grRemaining - 1
    /\ grResult' = IF grRemaining' = 0
                   THEN Resolve(grResult, ValuesOf(grValues'))
                   ELSE grResult
    /\ UNCHANGED <<grFn, grN, grI, grLocal>>
    /\ UNCHANGED <<now, exceptGroup>>

\* a Promise.all that reports a rejection only once every input has settled
parallelOpRejectsWaits(i, e) ==
    /\ grFn = "parallel" /\ i \in 1..Len(grOps) /\ grOps[i].state = "pending"
    /\ grOps' = [grOps EXCEPT ![i] = Rejected(e)]
    /\ grLog' = Append(grLog, Settle(i))
    /\ grResult' = IF \A k \in 1..Len(grOps) : grOps'[k].state # "pending"
                   THEN Reject(grResult, e) ELSE grResult
    /\ UNCHANGED <<grFn, grN, grValues, grRemaining, grI, grLocal>>
    /\ UNCHANGED <<now, exceptGroup>>

\* Promise.all rejects with the first rejection
parallelOpRejects(i, e) ==
    /\ grFn = "parallel" /\ i \in 1..Len(grOps) /\ grOps[i].state = "pending"
    /\ grOps' = [grOps EXCEPT ![i] = Rejected(e)]
    /\ grLog' = Append(grLog, Settle(i))
    /\ grResult' = Reject(grResult, e)
    /\ UNCHANGED <<grFn, grN, grValues, grRemaining, grI, grLocal>>
    /\ UNCHANGED <<now, exceptGroup>>

NextParallel ==
    \/ \E n \in 0..MaxOps : parallel(n)
    \/ \E i \in 1..MaxOps, v \in Values : parallelOpFulfils(i, v)
    \/ \E i \in 1..MaxOps, e \in Errors : parallelOpRejects(i, e)

SpecParallel == Init /\ [][NextParallel]_vars

\* the head of sequence's for loop, about to take operation k
SequenceLoop(k, n, ops, result) ==
    IF k <= n
    THEN \* result = await fn()
         /\ grI' = k
         /\ grOps' = Append(ops, Pending)
         /\ grLog' = Append(grLog, [ev |-> "start", i |-> k])
         /\ UNCHANGED grResult
    ELSE \* return result
         /\ grI' = 0
         /\ grOps' = ops
         /\ UNCHANGED grLog
         /\ grResult' = Resolve(grResult, result)

sequence(n) ==
    /\ grFn = "none"
    /\ grFn' = "sequence" /\ grN' = n
    /\ SequenceLoop(1, n, <<>>, grLocal)
    /\ UNCHANGED <<grValues, grRemaining, grLocal>>
    /\ UNCHANGED <<now, exceptGroup>>

\* the awaited operation fulfils: result = v, then the next turn of the loop
sequenceOpFulfils(v) ==
    /\ grFn = "sequence" /\ grI >= 1 /\ grOps[grI].state = "pending"
    /\ grLocal' = v
    /\ IF grI + 1 <= grN
       THEN /\ grI' = grI + 1
            /\ grOps' = Append([grOps EXCEPT ![grI] = Fulfilled(v)], Pending)
            /\ grLog' = grLog \o <<Settle(grI), [ev |-> "start", i |-> grI + 1]>>
            /\ UNCHANGED grResult
       ELSE /\ grI' = 0
            /\ grOps' = [grOps EXCEPT ![grI] = Fulfilled(v)]
            /\ grLog' = Append(grLog, Settle(grI))
            /\ grResult' = Resolve(grResult, v)
    /\ UNCHANGED <<grFn, grN, grValues, grRemaining>>
    /\ UNCHANGED <<now, exceptGroup>>

\* a loop that goes on after a failure
sequenceOpRejectsGoesOn(e) ==
    /\ grFn = "sequence" /\ grI >= 1 /\ grOps[grI].state = "pending"
    /\ IF grI + 1 <= grN
       THEN /\ grI' = grI + 1
            /\ grOps' = Append([grOps EXCEPT ![grI] = Rejected(e)], Pending)
            /\ grLog' = grLog \o <<Settle(grI), [ev |-> "start", i |-> grI + 1]>>
            /\ UNCHANGED grResult
       ELSE /\ grI' = 0
            /\ grOps' = [grOps EXCEPT ![grI] = Rejected(e)]
            /\ grLog' = Append(grLog, Settle(grI))
            /\ grResult' = Resolve(grResult, grLocal)
    /\ UNCHANGED <<grFn, grN, grValues, grRemaining, grLocal>>
    /\ UNCHANGED <<now, exceptGroup>>

\* the awaited operation rejects: the await throws out of the function
sequenceOpRejects(e) ==
    /\ grFn = "sequence" /\ grI >= 1 /\ grOps[grI].state = "pending"
    /\ grOps' = [grOps EXCEPT ![grI] = Rejected(e)]
    /\ grLog' = Append(grLog, Settle(grI))
    /\ grI' = 0
    /\ grResult' = Reject(grResult, e)
    /\ UNCHANGED <<grFn, grN, grValues, grRemaining, grLocal>>
    /\ UNCHANGED <<now, exceptGroup>>

NextSequence ==
    \/ \E n \in 0..MaxSeqOps : sequence(n)
    \/ \E v \in Values : sequenceOpFulfils(v)
    \/ \E e \in Errors : sequenceOpRejects(e)

SpecSequence == Init /\ [][NextSequence]_vars

\* the entry Promise.allSettled makes for a settled input
SettledEntry(p) ==
    IF p.state = "fulfilled"
    THEN [status |-> "fulfilled", value |-> p.value]
    ELSE [status |-> "rejected", reason |-> p.value]

EntriesOf(slots) == [k \in 1..Len(slots) |-> SettledEntry(slots[k])]

\* the inputs are promises the caller has already made
allSettled(n) ==
    /\ grFn = "none"
    /\ grFn' = "allSettled" /\ grN' = n
    /\ grOps' = AllPending(n)
    /\ grValues' = AllPending(n) /\ grRemaining' = n
    /\ grResult' = IF n = 0 THEN Fulfilled(<<>>) ELSE Pending
    /\ UNCHANGED <<grLog, grI, grLocal>>
    /\ UNCHANGED <<now, exceptGroup>>

\* an input settles with the outcome p: its slot is filled
AllSettledStore(i, p) ==
    /\ grFn = "allSettled" /\ i \in 1..Len(grOps) /\ grOps[i].state = "pending"
    /\ grOps' = [grOps EXCEPT ![i] = p]
    /\ grLog' = Append(grLog, Settle(i))
    /\ grValues' = [grValues EXCEPT ![i] = p]
    /\ grRemaining' = grRemaining - 1
    /\ grResult' = IF grRemaining' = 0
                   THEN Resolve(grResult, EntriesOf(grValues'))
                   ELSE grResult
    /\ UNCHANGED <<grFn, grN, grI, grLocal>>
    /\ UNCHANGED <<now, exceptGroup>>

allSettledInputFulfils(i, v) == AllSettledStore(i, Fulfilled(v))

\* an allSettled that fails with a rejected input
allSettledInputRejectsFails(i, e) ==
    /\ grFn = "allSettled" /\ i \in 1..Len(grOps) /\ grOps[i].state = "pending"
    /\ grOps' = [grOps EXCEPT ![i] = Rejected(e)]
    /\ grLog' = Append(grLog, Settle(i))
    /\ grResult' = Reject(grResult, e)
    /\ UNCHANGED <<grFn, grN, grValues, grRemaining, grI, grLocal>>
    /\ UNCHANGED <<now, exceptGroup>>

allSettledInputRejects(i, e) == AllSettledStore(i, Rejected(e))

NextAllSettled ==
    \/ \E n \in 0..MaxOps : allSettled(n)
    \/ \E i \in 1..MaxOps, v \in Values : allSettledInputFulfils(i, v)
    \/ \E i \in 1..MaxOps, e \in Errors : allSettledInputRejects(i, e)

SpecAllSettled == Init /\ [][NextAllSettled]_vars

(***************************************************************************)
(* batch (lines 194-205).                                                  *)
(*   for (let i = 0; i < fns.length; i += batchSize)                       *)
(*     batches.push(fns.slice(i, i + batchSize));                          *)
(*   const results = await Promise.all(batches.map(batch =>                *)
(*     Promise.all(batch.map(fn => fn()))                                  *)
(*       .then(batchResults => batchResults.flat())));                     *)
(*   return results.flat();                                                *)
(* The values of the operations are JavaScript values: an atom or an       *)
(* array of values.  A JavaScript array is the sequence of its items.      *)
(***************************************************************************)
JsAtom(a) == [arr |-> FALSE, atom |-> a, items |-> <<>>]
JsArray(s) == [arr |-> TRUE, atom |-> "", items |-> s]

BatchValues ==
    {JsAtom("v1"), JsAtom("v2"), JsArray(<<>>),
     JsArray(<<JsAtom("v1"), JsAtom("v2")>>)}

\* Array.prototype.flat(): the items of every element that is an array
\* take the element's place
RECURSIVE Flat(_)
Flat(s) ==
    IF Len(s) = 0 THEN <<>>
    ELSE (IF Head(s).arr THEN Head(s).items ELSE <<Head(s)>>) \o Flat(Tail(s))

\* the loop of lines 196-198: the number of slices and the slice of index i
NumBatches(n, size) == (n + size - 1) \div size
BatchOf(i, size) == (i - 1) \div size + 1
BatchFirst(b, size) == (b - 1) * size + 1
BatchLast(b, n, size) == Min(b * size, n)

\* the values of the operations of slice b, in slice order
BatchResults(ops, b, n, size) ==
    [k \in 1..(BatchLast(b, n, size) - BatchFirst(b, size) + 1) |->
        ops[BatchFirst(b, size) + k - 1].value]

\* a batch that invokes the operations of the first slice only
batchOneGroupAtATime(n, batchSize) ==
    /\ ~btCalled
    /\ btCalled' = TRUE /\ btSize' = batchSize
    /\ btOps' = AllPending(n)
    /\ btLog' = StartAll(Min(n, batchSize))
    /\ btBatches' = AllPending(NumBatches(n, batchSize))
    /\ btResult' = IF n = 0 THEN Fulfilled(<<>>) ELSE Pending
    /\ UNCHANGED <<now, exceptBatch>>

\* every slice is mapped, and every operation of it invoked, at once
batch(n, batchSize) ==
    /\ ~btCalled
    /\ btCalled' = TRUE /\ btSize' = batchSize
    /\ btOps' = AllPending(n)
    /\ btLog' = StartAll(n)
    /\ btBatches' = AllPending(NumBatches(n, batchSize))
    /\ btResult' = IF n = 0 THEN Fulfilled(<<>>) ELSE Pending
    /\ UNCHANGED <<now, exceptBatch>>

\* an operation fulfils: the inner Promise.all of its slice may resolve,
\* then(flat) runs, the outer Promise.all may resolve and batch returns
batchOpFulfils(i, v) ==
    /\ btCalled /\ i \in 1..Len(btOps) /\ btOps[i].state = "pending"
    /\ LET n == Len(btOps)
           ops == [btOps EXCEPT ![i] = Fulfilled(v)]
           b == BatchOf(i, btSize)
           full == \A k \in BatchFirst(b, btSize)..BatchLast(b, n, btSize) :
                       ops[k].state = "fulfilled"
           batches == IF full
                      THEN [btBatches EXCEPT
                              ![b] = Resolve(@, Flat(BatchResults(ops, b, n, btSize)))]
                      ELSE btBatches
           done == \A c \in 1..Len(batches) : batches[c].state = "fulfilled"
           results == [c \in 1..Len(batches) |-> JsArray(batches[c].value)]
       IN /\ btOps' = ops
          /\ btBatches' = batches
          /\ btResult' = IF done THEN Resolve(btResult, Flat(results))
                         ELSE btResult
    /\ btLog' = Append(btLog, Settle(i))
    /\ UNCHANGED <<btCalled, btSize>>
    /\ UNCHANGED <<now, exceptBatch>>

\* an operation rejects: both Promise.all reject with the first rejection
batchOpRejects(i, e) ==
    /\ btCalled /\ i \in 1..Len(btOps) /\ btOps[i].state = "pending"
    /\ btOps' = [btOps EXCEPT ![i] = Rejected(e)]
    /\ btBatches' = [btBatches EXCEPT ![BatchOf(i, btSize)] = Reject(@, e)]
    /\ btResult' = Reject(btResult, e)
    /\ btLog' = Append(btLog, Settle(i))
    /\ UNCHANGED <<btCalled, btSize>>
    /\ UNCHANGED <<now, exceptBatch>>

NextBatch ==
    \/ \E n \in 0..MaxBatchOps, s \in 1..MaxBatchSize : batch(n, s)
    \/ \E i \in 1..MaxBatchOps, v \in BatchValues : batchOpFulfils(i, v)
    \/ \E i \in 1..MaxBatchOps, e \in Errors : batchOpRejects(i, e)

SpecBatch == Init /\ [][NextBatch]_vars

(***************************************************************************)
(* mapAsync (233-240), filterAsync (248-257), reduceAsync (266-272),       *)
(* someAsync (280-287), everyAsync (295-302), findAsync (310-317),         *)
(* findIndexAsync (325-332), forEachAsync (340-344).                       *)
(* Each is a for loop over i = 0 .. array.length - 1 that awaits the       *)
(* callback for array[i].  coI is the JavaScript index: array[i] is        *)
(* coArray[i + 1].                                                         *)
(***************************************************************************)
Elements == {"a", "b"}

Arrays == UNION {[1..n -> Elements] : n \in 0..MaxLen}

\* what a mapper or reducer may fulfil with, and what a predicate may
PredResults == {"true", "false", "0", "1"}

\* JavaScript's truthiness of those values
Truthy(r) == r \notin {"false", "0", "", "null", "undefined", "NaN"}

CallbackResults(f) ==
    IF f \in {"mapAsync", "reduceAsync"} THEN Values
    ELSE IF f = "forEachAsync" THEN {"undefined"}
    ELSE PredResults

CoStart(i) == [ev |-> "start", i |-> i, r |-> "none"]

\* the head of the for loop, entered with counter i: the callback for
\* array[i] is invoked, or the loop ends and the function returns atEnd
CoLoop(array, i, local, log, atEnd) ==
    /\ coI' = i
    /\ coLocal' = local
    /\ IF i < Len(array)
       THEN /\ coPc' = "await"
            /\ coLog' = Append(log, CoStart(i))
            /\ UNCHANGED coResult
       ELSE /\ coPc' = "done"
            /\ coLog' = log
            /\ coResult' = Resolve(coResult, atEnd)

\* a return from inside the loop
CoReturn(log, value) ==
    /\ coPc' = "done"
    /\ coLog' = log
    /\ coResult' = Resolve(coResult, value)
    /\ UNCHANGED <<coI, coLocal>>

CoCall(f, array, local, atEnd) ==
    /\ coFn = "none"
    /\ coFn' = f /\ coArray' = array
    /\ CoLoop(array, 0, local, <<>>, atEnd)
    /\ UNCHANGED <<now, exceptCollection>>

mapAsync(array) == CoCall("mapAsync", array, <<>>, <<>>)

\* result.push(mappedValue)
mapAsyncStep(r, log) ==
    LET result == Append(coLocal, r)
    IN CoLoop(coArray, coI + 1, result, log, result)

filterAsync(array) == CoCall("filterAsync", array, <<>>, <<>>)

\* if (isInclude) result.push(array[i])
filterAsyncStep(r, log) ==
    LET result == IF Truthy(r) THEN Append(coLocal, coArray[coI + 1])
                  ELSE coLocal
    IN CoLoop(coArray, coI + 1, result, log, result)

reduceAsync(array, initialValue) ==
    CoCall("reduceAsync", array, initialValue, initialValue)

\* accumulator = await asyncReducer(...)
reduceAsyncStep(r, log) == CoLoop(coArray, coI + 1, r, log, r)

someAsync(array) == CoCall("someAsync", array, <<>>, FALSE)

\* a someAsync that visits every element before it answers
someAsyncStepScansOn(r, log) ==
    CoLoop(coArray, coI + 1, coLocal, log,
           \E k \in 1..Len(log) : log[k].ev = "ok" /\ Truthy(log[k].r))

\* if (await asyncPredicate(...)) return true
someAsyncStep(r, log) ==
    IF Truthy(r) THEN CoReturn(log, TRUE)
    ELSE CoLoop(coArray, coI + 1, coLocal, log, FALSE)

everyAsync(array) == CoCall("everyAsync", array, <<>>, TRUE)

\* if (!(await asyncPredicate(...))) return false
everyAsyncStep(r, log) ==
    IF ~Truthy(r) THEN CoReturn(log, FALSE)
    ELSE CoLoop(coArray, coI + 1, coLocal, log, TRUE)

findAsync(array) == CoCall("findAsync", array, <<>>, "undefined")

\* if (await asyncPredicate(...)) return array[i]
findAsyncStep(r, log) ==
    IF Truthy(r) THEN CoReturn(log, coArray[coI + 1])
    ELSE CoLoop(coArray, coI + 1, coLocal, log, "undefined")

findIndexAsync(array) == CoCall("findIndexAsync", array, <<>>, -1)

\* if (await asyncPredicate(...)) return i
findIndexAsyncStep(r, log) ==
    IF Truthy(r) THEN CoReturn(log, coI)
    ELSE CoLoop(coArray, coI + 1, coLocal, log, -1)

forEachAsync(array) == CoCall("forEachAsync", array, <<>>, "undefined")

forEachAsyncStep(r, log) ==
    CoLoop(coArray, coI + 1, coLocal, log, "undefined")

\* the awaited callback fulfils with r: the rest of the loop body
coCallbackFulfils(r) ==
    /\ coPc = "await" /\ r \in CallbackResults(coFn)
    /\ LET log == Append(coLog, [ev |-> "ok", i |-> coI, r |-> r])
       IN \/ coFn = "mapAsync" /\ mapAsyncStep(r, log)
          \/ coFn = "filterAsync" /\ filterAsyncStep(r, log)
          \/ coFn = "reduceAsync" /\ reduceAsyncStep(r, log)
          \/ coFn = "someAsync" /\ someAsyncStep(r, log)
          \/ coFn = "everyAsync" /\ everyAsyncStep(r, log)
          \/ coFn = "findAsync" /\ findAsyncStep(r, log)
          \/ coFn = "findIndexAsync" /\ findIndexAsyncStep(r, log)
          \/ coFn = "forEachAsync" /\ forEachAsyncStep(r, log)
    /\ UNCHANGED <<coFn, coArray>>
    /\ UNCHANGED <<now, exceptCollection>>

\* a loop that skips an element whose callback failed
coCallbackRejectsSkips(e) ==
    /\ coPc = "await"
    /\ CoLoop(coArray, coI + 1, coLocal,
              Append(coLog, [ev |-> "fail", i |-> coI, r |-> e]), "undefined")
    /\ UNCHANGED <<coFn, coArray>>
    /\ UNCHANGED <<now, exceptCollection>>

\* the awaited callback rejects: the await throws out of the function
coCallbackRejects(e) ==
    /\ coPc = "await"
    /\ coPc' = "done"
    /\ coLog' = Append(coLog, [ev |-> "fail", i |-> coI, r |-> e])
    /\ coResult' = Reject(coResult, e)
    /\ UNCHANGED <<coFn, coArray, coI, coLocal>>
    /\ UNCHANGED <<now, exceptCollection>>

NextCollection ==
    \/ \E a \in Arrays : mapAsync(a)
    \/ \E a \in Arrays : filterAsync(a)
    \/ \E a \in Arrays, v \in Values : reduceAsync(a, v)
    \/ \E a \in Arrays : someAsync(a)
    \/ \E a \in Arrays : everyAsync(a)
    \/ \E a \in Arrays : findAsync(a)
    \/ \E a \in Arrays : findIndexAsync(a)
    \/ \E a \in Arrays : forEachAsync(a)
    \/ \E r \in Values \cup PredResults \cup {"undefined"} : coCallbackFulfils(r)
    \/ \E e \in Errors : coCallbackRejects(e)

SpecCollection == Init /\ [][NextCollection]_vars

(***************************************************************************)
(*                               Claims                                    *)
(***************************************************************************)
RECURSIVE Pow2(_)
Pow2(n) == IF n = 0 THEN 1 ELSE 2 * Pow2(n - 1)

\* index of the first successful invocation in a history, 0 when none
FirstOk(calls) ==
    IF \E k \in 1..Len(calls) : calls[k].ok
    THEN CHOOSE k \in 1..Len(calls) :
            calls[k].ok /\ \A j \in 1..(k - 1) : ~calls[j].ok
    ELSE 0

(* C3: for maxAttempts >= 1, retry resolves iff one of the first           *)
(* maxAttempts invocations succeeds, then with the value of the first      *)
(* success and without invoking the operation again; otherwise it invokes  *)
(* the operation exactly maxAttempts times and rejects with the error of   *)
(* the last attempt.                                                       *)
C3_RetryOutcome ==
    (rtFn = "retry" /\ rtMax >= 1) =>
        LET k == FirstOk(rtCalls) IN
        /\ rtInvoked <= rtMax
        /\ rtPc # "done" => rtResult = Pending /\ k = 0
        /\ rtPc = "done" =>
              IF k > 0
              THEN /\ rtResult = Fulfilled(rtCalls[k].value)
                   /\ Len(rtCalls) = k /\ rtInvoked = k
              ELSE /\ Len(rtCalls) = rtMax /\ rtInvoked = rtMax
                   /\ rtResult = Rejected(rtCalls[rtMax].value)

\* retry(fn, 3) whose operation fails twice and then succeeds
C3_Witness ==
    /\ rtFn = "retry" /\ rtMax = 3 /\ rtPc = "done"
    /\ Len(rtCalls) = 3 /\ ~rtCalls[1].ok /\ ~rtCalls[2].ok /\ rtCalls[3].ok
    /\ rtResult.state = "fulfilled"

(* C9: in retryWithBackoff the wait that follows the k-th failed attempt   *)
(* is min(baseDelay * 2^(k-1), maxDelay), for every baseDelay, maxDelay    *)
(* and k >= 1.                                                             *)
C9_BackoffWaits ==
    rtFn = "retryWithBackoff" =>
        \A k \in 1..Len(rtWaits) :
            rtWaits[k] = Min(rtBase * Pow2(k - 1), rtCap)

(* C10: for maxAttempts >= 1, retryWithDelay, retryWithBackoff and         *)
(* sequentialRetry resolve with the value of the first successful attempt  *)
(* among the first maxAttempts; when all maxAttempts attempts fail they    *)
(* reject with 'Retry limit exceeded', never with the operation's error.   *)
C10_DelayedRetryOutcome ==
    (rtFn \in DelayFns /\ rtMax >= 1) =>
        LET k == FirstOk(rtCalls) IN
        /\ rtInvoked <= rtMax
        /\ rtPc # "done" => rtResult = Pending /\ k = 0
        /\ rtPc = "done" =>
              IF k > 0
              THEN /\ rtResult = Fulfilled(rtCalls[k].value)
                   /\ Len(rtCalls) = k /\ rtInvoked = k
              ELSE /\ Len(rtCalls) = rtMax /\ rtInvoked = rtMax
                   /\ rtResult = Rejected(RetryLimitExceeded)
                   /\ rtResult.value \notin Errors

\* sequentialRetry(op, 2, d) whose two attempts both fail
C10_Witness ==
    /\ rtFn = "sequentialRetry" /\ rtMax = 2 /\ rtPc = "done"
    /\ Len(rtCalls) = 2 /\ ~rtCalls[1].ok /\ ~rtCalls[2].ok
    /\ rtResult = Rejected(RetryLimitExceeded)

(* C8: timeout(op, d) starts op and the timer together, and its result     *)
(* settles exactly once, with whichever happens first: op's value, op's    *)
(* error, or the 'Operation timed out' rejection when the timer fires      *)
(* first; op is not cancelled and its later settlement changes nothing.    *)
C8_TimeoutFirstWins ==
    /\ toPc = "idle" => toTimer = "none" /\ toOp = "none" /\ toResult = Pending
    /\ toPc = "running" =>
          /\ toTimer # "none" /\ toOp # "none"
          /\ toSettles <= 1
          /\ toEvents = <<>> => toResult = Pending /\ toOp = "pending"
          /\ toEvents # <<>> =>
                LET first == toEvents[1] IN
                /\ toSettles = 1
                /\ toResult = IF first.ok THEN Fulfilled(first.value)
                                          ELSE Rejected(first.value)
                /\ (first.kind = "timer") = (toResult = Rejected(OperationTimedOut))
                \* the operation stays in flight after the timer fired
                /\ (first.kind = "timer" /\ Len(toEvents) = 1) => toOp = "pending"

\* the timer fired first and the operation fulfilled afterwards
C8_Witness ==
    /\ Len(toEvents) = 2
    /\ toEvents[1].kind = "timer" /\ toEvents[2].kind = "op" /\ toEvents[2].ok
    /\ toResult = Rejected(OperationTimedOut)

(* C2: fn is invoked at most once per distinct serialized argument list; a *)
(* second call with identical arguments returns the stored deferred result *)
(* without invoking fn, also while the first call is still pending, and    *)
(* both calls resolve to the same value.                                   *)
C2_MemoOncePerKey ==
    /\ \A k \in Keys :
          Cardinality({i \in 1..Len(mmInv) : Stringify(mmInv[i].args) = k}) <= 1
    /\ \A c \in 1..Len(mmCalls), d \in 1..Len(mmCalls) :
          (c < d /\ mmCalls[c].args = mmCalls[d].args) =>
              /\ mmCalls[d].inv = mmCalls[c].inv
              /\ Stringify(mmInv[mmCalls[c].inv].args) = Stringify(mmCalls[c].args)
              /\ (mmCalls[c].result # Pending /\ mmCalls[d].result # Pending)
                    => mmCalls[c].result = mmCalls[d].result
    /\ \A c \in 1..Len(mmCalls) :
          mmCalls[c].result # Pending =>
              mmCalls[c].result = mmInv[mmCalls[c].inv].p

\* two calls with the same arguments, the second made while the first
\* invocation of fn was pending, both fulfilled with the same value
C2_Witness ==
    /\ Len(mmCalls) = 2 /\ Len(mmInv) = 1
    /\ mmCalls[1].args = <<"2">> /\ mmCalls[2].args = <<"2">>
    /\ mmCalls[1].result.state = "fulfilled"
    /\ mmCalls[2].result = mmCalls[1].result

\* call i was followed by another call less than delay later
DebSuperseded(i) ==
    i < Len(dbCalls) /\ dbCalls[i + 1].time - dbCalls[i].time < dbDelay

\* no call followed call i until after its delay had passed
DebLastOfSeries(i) ==
    i = Len(dbCalls) \/ dbCalls[i + 1].time - dbCalls[i].time > dbDelay

DebExecsOf(i) == {x \in 1..Len(dbExecs) : dbExecs[x].call = i}

(* C4: in a series of calls each less than delay after the previous one,   *)
(* fn is executed exactly once, delay after the last call and with that    *)
(* call's arguments; fn is never executed with the arguments of a call     *)
(* superseded by a later call, however long fn's executions take.          *)
C4_DebounceOnlyLastCall ==
    \A i \in 1..Len(dbCalls) :
        /\ DebSuperseded(i) => DebExecsOf(i) = {}
        /\ (DebLastOfSeries(i) /\ now > dbCalls[i].deadline) =>
              /\ Cardinality(DebExecsOf(i)) = 1
              /\ \A x \in DebExecsOf(i) :
                    dbExecs[x].start = dbCalls[i].time + dbDelay

\* the last call of the debounce cycle call i belongs to
RECURSIVE DebCycleLast(_)
DebCycleLast(i) == IF DebSuperseded(i) THEN DebCycleLast(i + 1) ELSE i

(* C5: the deferred results of all calls of one debounce cycle, the        *)
(* superseded calls included, settle with the outcome of the cycle's       *)
(* single execution: once that execution has fulfilled, every call of the  *)
(* cycle is fulfilled with its value.                                      *)
C5_DebounceCycleSettles ==
    \A i \in 1..Len(dbCalls) :
        \A x \in DebExecsOf(DebCycleLast(i)) :
            dbExecs[x].state = "fulfilled" =>
                dbCalls[i].result = Fulfilled(dbExecs[x].value)

\* the calls that arrived, like call c, before the interval since the
\* execution at thCalls[c].lastAt had elapsed
ThGroup(c) ==
    {d \in 1..Len(thCalls) :
        /\ thCalls[d].lastAt = thCalls[c].lastAt
        /\ thCalls[d].time - thCalls[d].lastAt < thInterval}

SetMax(S) == CHOOSE m \in S : \A n \in S : n <= m

(* C6: the first call executes fn immediately; the calls that arrive       *)
(* before the interval since the last execution has elapsed are coalesced  *)
(* into one deferred execution at last execution + interval, with the      *)
(* arguments of the most recent of them, and each of them receives that    *)
(* execution's result.                                                     *)
C6_ThrottleCoalesces ==
    /\ Len(thCalls) >= 1 =>
          /\ thCalls[1].kind = "immediate"
          /\ thExecs[1].args = 1 /\ thExecs[1].start = thCalls[1].time
    /\ \A c \in 1..Len(thCalls) :
          (thCalls[c].time - thCalls[c].lastAt < thInterval
             /\ now > thCalls[c].lastAt + thInterval) =>
              LET at == thCalls[c].lastAt + thInterval
                  X == {x \in 1..Len(thExecs) :
                           thExecs[x].origin # 0 /\ thExecs[x].start = at}
              IN /\ Cardinality(X) = 1
                 /\ \A x \in X :
                       /\ thExecs[x].args = SetMax(ThGroup(c))
                       /\ thExecs[x].state = "fulfilled" =>
                             thResult(c) = Fulfilled(thExecs[x].value)

(* C7: any two consecutive executions of the operation by a throttled      *)
(* function start at least interval apart (interval > 0).                  *)
C7_ThrottleSpacing ==
    \A x \in 2..Len(thExecs) :
        thExecs[x].start - thExecs[x - 1].start >= thInterval

\* three executions: a direct one, a deferred one at the interval boundary
\* and another direct one
C7_Witness ==
    /\ Len(thExecs) = 3 /\ thInterval = 2
    /\ thExecs[1].origin = 0 /\ thExecs[2].origin # 0 /\ thExecs[3].origin = 0
    /\ thExecs[2].start = thExecs[1].start + thInterval

(* C1: after maxFailures consecutive failed calls of                       *)
(* circuitBreaker(op, maxFailures, cooldown), the next call made before    *)
(* the cooldown has elapsed rejects at once with 'Circuit is open' and     *)
(* does not invoke op.                                                     *)
C1_BreakerOpensAfterFailures ==
    \A n \in 2..Len(cbCalls) :
        (cbCalls[n].streak >= cbCalls[n].maxFailures /\ cbCalls[n].inCooldown) =>
            /\ cbCalls[n].result = Rejected(CircuitIsOpen)
            /\ ~cbCalls[n].invoked

(* C11: with maxAttempts = 0, each of retry, retryWithDelay and            *)
(* retryWithBackoff fails at once: the promise it returns rejects and the  *)
(* operation is never invoked.                                             *)
C11_ZeroAttemptsFail ==
    (rtFn \in {"retry", "retryWithDelay", "retryWithBackoff"} /\ rtMax = 0) =>
        /\ rtResult.state = "rejected"
        /\ rtInvoked = 0

\* retryWithDelay(op, 0, d) has rejected without an invocation
C11_Witness ==
    /\ rtFn = "retryWithDelay" /\ rtMax = 0
    /\ rtResult = Rejected(RetryLimitExceeded) /\ rtInvoked = 0

\* every operation was started, in list order, before any settlement
AllStartedFirst ==
    /\ Len(grLog) >= grN
    /\ \A k \in 1..Len(grLog) :
          IF k <= grN THEN grLog[k] = [ev |-> "start", i |-> k]
          ELSE grLog[k].ev = "settle"

\* the operations in the order in which they settled
SettleOrder == [k \in 1..(Len(grLog) - grN) |-> grLog[grN + k].i]

(* C12: parallel(operations) starts all the operations before any of them  *)
(* settles and, when all of them fulfil, resolves to the list whose i-th   *)
(* entry is the value of the i-th operation, whatever the order in which   *)
(* they complete.                                                          *)
C12_ParallelOrder ==
    grFn = "parallel" =>
        /\ AllStartedFirst
        /\ (\A k \in 1..grN : grOps[k].state = "fulfilled") =>
              grResult = Fulfilled([k \in 1..grN |-> grOps[k].value])

\* three operations that fulfil in the order 3, 2, 1 with different values
C12_Witness ==
    /\ grFn = "parallel" /\ grN = 3
    /\ SettleOrder = <<3, 2, 1>>
    /\ grOps[1].value = "v1" /\ grOps[2].value = "v2" /\ grOps[3].value = "v2"
    /\ grResult = Fulfilled(<<"v1", "v2", "v2">>)

(* C14: sequence(operations) invokes the operations in list order, starts  *)
(* operation n+1 only after operation n has fulfilled and resolves with    *)
(* the value of the last operation; if operation n fails, sequence rejects *)
(* with that error and operations n+1 and later are never invoked.         *)
C14_SequenceOrder ==
    grFn = "sequence" =>
        /\ Len(grOps) <= grN
        /\ \A k \in 1..Len(grLog) :
              grLog[k] = IF k % 2 = 1 THEN [ev |-> "start", i |-> (k + 1) \div 2]
                         ELSE [ev |-> "settle", i |-> k \div 2]
        /\ \A k \in 2..Len(grOps) : grOps[k - 1].state = "fulfilled"
        /\ \A k \in 1..Len(grOps) :
              grOps[k].state = "rejected" =>
                  /\ grResult = Rejected(grOps[k].value)
                  /\ Len(grOps) = k
        /\ (grN >= 1 /\ Len(grOps) = grN /\ grOps[grN].state = "fulfilled") =>
              grResult = Fulfilled(grOps[grN].value)
        /\ (\E k \in 1..Len(grOps) : grOps[k].state = "pending") =>
              grResult = Pending

\* of three operations the first fulfils and the second fails
C14_Witness ==
    /\ grFn = "sequence" /\ grN = 3
    /\ Len(grOps) = 2 /\ grOps[1].state = "fulfilled"
    /\ grOps[2] = Rejected("e2")
    /\ grResult = Rejected("e2")

(* C15: race(operations) starts every operation before any of them         *)
(* settles; for a non-empty list its result settles with the outcome,      *)
(* value or error, of the operation that settles first, and the later      *)
(* settlements of the other operations, which are not cancelled, do not    *)
(* change it.                                                              *)
C15_RaceFirstSettles ==
    (grFn = "race" /\ grN >= 1) =>
        /\ AllStartedFirst
        /\ IF SettleOrder = <<>> THEN grResult = Pending
           ELSE grResult = grOps[SettleOrder[1]]

\* the second of three operations fails first; the others settle later
C15_Witness ==
    /\ grFn = "race" /\ grN = 3
    /\ SettleOrder = <<2, 3, 1>>
    /\ grOps[2] = Rejected("e1") /\ grOps[3] = Fulfilled("v2")
    /\ grOps[1] = Rejected("e2")
    /\ grResult = Rejected("e1")

(* C16: allSettled(promises) never rejects: once every input has settled   *)
(* it resolves to a list with one entry per input, in input order,         *)
(* {status: 'fulfilled', value} for a fulfilled input and                  *)
(* {status: 'rejected', reason} for a rejected one.                        *)
C16_AllSettledNeverRejects ==
    grFn = "allSettled" =>
        /\ grResult.state # "rejected"
        /\ IF \A k \in 1..grN : grOps[k].state # "pending"
           THEN /\ grResult.state = "fulfilled"
                /\ Len(grResult.value) = grN
                /\ \A k \in 1..grN :
                      grResult.value[k] =
                          IF grOps[k].state = "fulfilled"
                          THEN [status |-> "fulfilled", value |-> grOps[k].value]
                          ELSE [status |-> "rejected", reason |-> grOps[k].value]
           ELSE grResult = Pending

\* the second input rejects before the first fulfils
C16_Witness ==
    /\ grFn = "allSettled" /\ grN = 2
    /\ grLog = <<Settle(2), Settle(1)>>
    /\ grOps[1] = Fulfilled("v1") /\ grOps[2] = Rejected("e1")
    /\ grResult.state = "fulfilled"

(* C13: for every list of operations that all fulfil and every             *)
(* batchSize >= 1, batch resolves to a list with exactly one entry per     *)
(* operation, the i-th entry being the value of the i-th operation         *)
(* unchanged, whatever the values are (lists included) and whatever the    *)
(* order of completion.                                                    *)
C13_BatchOneEntryPerOperation ==
    (btCalled /\ \A i \in 1..Len(btOps) : btOps[i].state = "fulfilled") =>
        /\ btResult.state = "fulfilled"
        /\ Len(btResult.value) = Len(btOps)
        /\ \A i \in 1..Len(btOps) : btResult.value[i] = btOps[i].value

\* three operations in slices of two fulfil with atoms in the order 3, 1, 2
C13_Witness ==
    /\ btCalled /\ btSize = 2 /\ Len(btOps) = 3
    /\ btLog = StartAll(3) \o <<Settle(3), Settle(1), Settle(2)>>
    /\ btOps[1] = Fulfilled(JsAtom("v1")) /\ btOps[2] = Fulfilled(JsAtom("v2"))
    /\ btOps[3] = Fulfilled(JsAtom("v2"))
    /\ btResult = Fulfilled(<<JsAtom("v1"), JsAtom("v2"), JsAtom("v2")>>)

\* the promise returned by the debounced call whose execution x failed
\* rejects with the failure
DebouncedFailureSurfaces ==
    \A x \in 1..Len(dbExecs) :
        dbExecs[x].state = "rejected" =>
            dbCalls[dbExecs[x].call].result = Rejected(dbExecs[x].value)

\* the promise returned by every throttled call served by the deferred
\* execution x, which failed, rejects with the failure
ThrottledFailureSurfaces ==
    \A x \in 1..Len(thExecs) :
        (thExecs[x].origin # 0 /\ thExecs[x].state = "rejected") =>
            \A c \in 1..Len(thCalls) :
                (thCalls[c].kind = "deferred" /\ thCalls[c].src = thExecs[x].origin)
                    => thResult(c) = Rejected(thExecs[x].value)

(* C17: when the wrapped operation fails during the execution scheduled    *)
(* by debounceAsync or by throttleAsync, the promise that was returned to  *)
(* the caller rejects with that failure.                                   *)
C17_FailureSurfaces ==
    /\ DebouncedFailureSurfaces
    /\ ThrottledFailureSurfaces

CollectionFns ==
    {"mapAsync", "filterAsync", "reduceAsync", "someAsync", "everyAsync",
     "findAsync", "findIndexAsync", "forEachAsync"}

(* C18: each of mapAsync, filterAsync, reduceAsync, someAsync, everyAsync, *)
(* findAsync, findIndexAsync and forEachAsync invokes its callback on the  *)
(* elements in index order and never starts the callback for element n+1   *)
(* before the callback for element n has settled: at most one callback is  *)
(* in flight, and a callback failure rejects the whole call without any    *)
(* later element being processed.                                          *)
C18_CollectionSequential ==
    coFn \in CollectionFns =>
        /\ \A k \in 1..Len(coLog) :
              /\ coLog[k].i = (k - 1) \div 2
              /\ (k % 2 = 1) <=> (coLog[k].ev = "start")
        /\ \A k \in 1..Len(coLog) : coLog[k].i < Len(coArray)
        /\ \A k \in 1..Len(coLog) :
              coLog[k].ev = "fail" =>
                  /\ k = Len(coLog)
                  /\ coResult = Rejected(coLog[k].r)

\* filterAsync over three elements whose second callback fails
C18_Witness ==
    /\ coFn = "filterAsync" /\ Len(coArray) = 3
    /\ Len(coLog) = 4 /\ coLog[2].ev = "ok" /\ coLog[4].ev = "fail"
    /\ coPc = "done" /\ coResult.state = "rejected"

ShortCircuitFns == {"someAsync", "everyAsync", "findAsync", "findIndexAsync"}

\* the k-th event is the settlement that ends the search
Qualifies(k) ==
    /\ coLog[k].ev = "ok"
    /\ IF coFn = "everyAsync" THEN ~Truthy(coLog[k].r) ELSE Truthy(coLog[k].r)

(* C19: someAsync, findAsync and findIndexAsync stop at the first element  *)
(* whose predicate is truthy, everyAsync at the first whose predicate is   *)
(* falsy: the predicate is never invoked on a later element and the        *)
(* results are true, that element, its index and false; when no element    *)
(* qualifies the results are false, undefined, -1 and true.                *)
C19_ShortCircuit ==
    coFn \in ShortCircuitFns =>
        /\ \A k \in 1..Len(coLog) :
              Qualifies(k) =>
                  /\ k = Len(coLog)
                  /\ coResult.state = "fulfilled"
                  /\ CASE coFn = "someAsync" -> coResult.value = TRUE
                       [] coFn = "findAsync" ->
                              coResult.value = coArray[coLog[k].i + 1]
                       [] coFn = "findIndexAsync" -> coResult.value = coLog[k].i
                       [] coFn = "everyAsync" -> coResult.value = FALSE
        /\ (/\ coPc = "done"
            /\ \A k \in 1..Len(coLog) : coLog[k].ev # "fail" /\ ~Qualifies(k)) =>
              /\ Len(coLog) = 2 * Len(coArray)
              /\ coResult.state = "fulfilled"
              /\ CASE coFn = "someAsync" -> coResult.value = FALSE
                   [] coFn = "findAsync" -> coResult.value = "undefined"
                   [] coFn = "findIndexAsync" -> coResult.value = -1
                   [] coFn = "everyAsync" -> coResult.value = TRUE

\* findIndexAsync(["a", "b", "a"], ...) whose predicate holds first at "b"
C19_Witness ==
    /\ coFn = "findIndexAsync" /\ coArray = <<"a", "b", "a">>
    /\ Len(coLog) = 4 /\ ~Qualifies(2) /\ Qualifies(4)
    /\ coResult = Fulfilled(1)

(* C20: once the circuit breaker has opened, after the cooldown has        *)
(* elapsed it is closed again with the failure count at zero, whether or   *)
(* not a call was attempted during the cooldown, and the next call         *)
(* invokes op.                                                             *)
C20_BreakerClosesAfterCooldown ==
    \A i \in 1..Len(cbCalls) :
        /\ (cbCalls[i].timer # "none" /\ now > cbCalls[i].deadline) =>
              /\ ~cbCalls[i].circuitOpen
              /\ cbCalls[i].failures = 0
        /\ cbCalls[i].timer = "fired" =>
              /\ ~cbCalls[i].circuitOpen
              /\ cbCalls[i].failures = 0
        /\ cbCalls[i].closedAgain =>
              /\ cbCalls[i].invoked
              /\ cbCalls[i].result # Rejected(CircuitIsOpen)

\* the first call failed and opened the circuit, its cooldown ran out, and
\* the call made after that invoked op
C20_Witness ==
    /\ Len(cbCalls) = 2
    /\ cbCalls[1].maxFailures = 1 /\ cbCalls[1].result.state = "rejected"
    /\ cbCalls[1].timer = "fired" /\ now >= cbCalls[1].deadline
    /\ cbCalls[2].closedAgain /\ cbCalls[2].invoked
    /\ cbCalls[2].result.state = "fulfilled"

FailedAt == {k \in 1..Len(SettleOrder) : grOps[SettleOrder[k]].state = "rejected"}

(* C22: if any operation fails, parallel rejects with the error of the     *)
(* first operation to fail, as soon as that failure occurs and without     *)
(* waiting for the operations still pending, whose outcomes are never      *)
(* reported.                                                               *)
C22_ParallelFailsFast ==
    (grFn = "parallel" /\ FailedAt # {}) =>
        LET first == CHOOSE k \in FailedAt : \A j \in FailedAt : k <= j
        IN grResult = Rejected(grOps[SettleOrder[first]].value)

\* the third of three operations fulfils, then the second fails while the
\* first is still pending
C22_Witness ==
    /\ grFn = "parallel" /\ grN = 3
    /\ SettleOrder = <<3, 2>>
    /\ grOps[1].state = "pending" /\ grOps[2] = Rejected("e2")
    /\ grResult = Rejected("e2")

(* C23: when the calls to a throttled function are made one at a time,     *)
(* each awaited before the next is made, and the operation succeeds, no    *)
(* call is dropped: after n such calls the operation has been executed     *)
(* exactly n times and the k-th call resolved with the result of the k-th  *)
(* execution, whatever the time between the calls.                         *)
C23_ThrottleAwaitedNoDrop ==
    /\ Len(thExecs) <= Len(thCalls)
    /\ (\A c \in 1..Len(thCalls) : thResult(c) # Pending) =>
          Len(thExecs) = Len(thCalls)
    /\ \A c \in 1..Len(thCalls) :
          /\ thCalls[c].kind \in {"immediate", "deferred"}
          /\ thCalls[c].kind = "immediate" => thCalls[c].src = c
          /\ c <= Len(thExecs) =>
                /\ thExecs[c].args = c
                /\ thCalls[c].kind = "deferred" =>
                      thExecs[c].origin = thCalls[c].src
          /\ thResult(c) # Pending =>
                /\ c <= Len(thExecs)
                /\ thResult(c) = Fulfilled(thExecs[c].value)

\* the calls of the test: one executed at once, one deferred, one executed
\* at once after a pause, one deferred, each with its own result
C23_Witness ==
    /\ Len(thCalls) = 4 /\ Len(thExecs) = 4
    /\ thCalls[1].kind = "immediate" /\ thCalls[2].kind = "deferred"
    /\ thCalls[3].kind = "immediate" /\ thCalls[4].kind = "deferred"
    /\ thCalls[3].time > thExecs[2].start + thInterval
    /\ thResult(1) = Fulfilled("v1") /\ thResult(2) = Fulfilled("v2")
    /\ thResult(3) = Fulfilled("v1") /\ thResult(4) = Fulfilled("v2")

\* the timers of a debounced / throttled function that are scheduled and
\* have neither fired nor been cancelled
DebPendingTimers == {i \in 1..Len(dbCalls) : dbCalls[i].timer = "pending"}
ThPendingTimers == {q \in 1..Len(thProms) : thProms[q].timer = "pending"}

(* C24: at every moment a wrapped function made by debounceAsync or by     *)
(* throttleAsync has at most one pending timer, after any sequence of      *)
(* calls, timer firings and operation completions, including calls made    *)
(* while a fired execution of the operation is still in flight.            *)
C24_OnePendingTimer ==
    /\ Cardinality(DebPendingTimers) <= 1
    /\ Cardinality(ThPendingTimers) <= 1

\* the executions of fn whose outcome the promise of call c takes
ThServing(c) ==
    {x \in 1..Len(thExecs) :
        IF thCalls[c].kind = "immediate" THEN x = thCalls[c].src
        ELSE thExecs[x].origin = thCalls[c].src}

(* C28: every call to a throttled function is resolved with the outcome of *)
(* an execution of the operation that started at or after the moment of    *)
(* that call, including calls that arrive while a deferred execution is    *)
(* in flight or after the interval has elapsed while a deferred execution  *)
(* is still pending.                                                       *)
C28_ThrottleFreshResult ==
    \A c \in 1..Len(thCalls) :
        thResult(c) # Pending =>
            \E x \in ThServing(c) :
                /\ thExecs[x].start >= thCalls[c].time
                /\ thResult(c).value = thExecs[x].value

\* a call made while the deferred execution it will be served by has not
\* started yet gets the result of that execution
C28_Witness ==
    /\ Len(thCalls) >= 2 /\ thCalls[2].kind = "deferred"
    /\ thResult(2).state = "fulfilled"
    /\ \E x \in ThServing(2) : thExecs[x].start > thCalls[2].time

(* C26: a throttled function cannot get stuck: provided every execution of *)
(* the operation settles, with a value or with an error, every call to the *)
(* throttled function eventually settles and the pending-execution slot is *)
(* eventually cleared, so that later calls again trigger executions.       *)
C26_ThrottleNeverStuck ==
    /\ \A c \in 1..MaxLiveCalls :
          (c <= Len(thCalls)) ~> (c <= Len(thCalls) /\ thResult(c) # Pending)
    /\ (thPending # 0) ~> (thPending = 0)

\* a deferred execution has failed
C26_Witness ==
    \E x \in 1..Len(thExecs) :
        thExecs[x].origin # 0 /\ thExecs[x].state = "rejected"

(* C27: cache entries of memoizeAsync are never invalidated or evicted:    *)
(* once a key is stored it stays mapped to the same deferred result for    *)
(* the lifetime of the wrapped function, so after a call whose invocation  *)
(* of f failed every later call with the same arguments receives that      *)
(* same failure and f is not invoked again.                                *)
C27_MemoNeverEvicts ==
    /\ [][\A k \in Keys : mmCache[k] # 0 => mmCache'[k] = mmCache[k]]_vars
    /\ [](\A d \in 1..Len(mmCalls) :
             mmCalls[d].found = "rejected" =>
                 /\ \E c \in 1..(d - 1) :
                       /\ Stringify(mmCalls[c].args) = Stringify(mmCalls[d].args)
                       /\ mmCalls[c].inv = mmCalls[d].inv
                 /\ mmCalls[d].inv < Len(mmInv) + 1
                 /\ mmCache[Stringify(mmCalls[d].args)] = mmCalls[d].inv
                 /\ mmInv[mmCalls[d].inv].p.state = "rejected"
                 /\ mmCalls[d].result \in {Pending, mmInv[mmCalls[d].inv].p}
                 /\ Cardinality({i \in 1..Len(mmInv) :
                        Stringify(mmInv[i].args) = Stringify(mmCalls[d].args)}) = 1)

\* a call made after the invocation for its arguments had failed has
\* received that failure, and f was invoked once
C27_Witness ==
    /\ Len(mmCalls) = 2 /\ Len(mmInv) = 1
    /\ mmCalls[1].args = <<"1">> /\ mmCalls[2].args = <<"1">>
    /\ mmCalls[2].found = "rejected"
    /\ mmCalls[1].result = Rejected("e1") /\ mmCalls[2].result = Rejected("e1")

\* the number of failed attempts recorded in a sequence of outcomes
FailedAttempts(calls) == Cardinality({k \in 1..Len(calls) : ~calls[k].ok})

(* C30: retryWithDelay, retryWithBackoff and sequentialRetry wait after    *)
(* every failed attempt, including the last one: when all maxAttempts      *)
(* attempts fail, exactly maxAttempts waits have elapsed before the        *)
(* 'Retry limit exceeded' failure is raised, and no wait happens after a   *)
(* successful attempt.                                                     *)
C30_WaitAfterEveryFailure ==
    rtFn \in DelayFns =>
        /\ Len(rtWaits) = FailedAttempts(rtCalls)
        /\ rtPc = "wait" => /\ rtResult = Pending
                            /\ ~rtCalls[Len(rtCalls)].ok
        /\ (rtPc = "done" /\ rtResult = Rejected(RetryLimitExceeded)) =>
               /\ Len(rtCalls) = rtMax
               /\ Len(rtWaits) = rtMax
        /\ (rtPc = "done" /\ rtResult.state = "fulfilled") =>
               /\ rtCalls[Len(rtCalls)].ok
               /\ Len(rtWaits) = Len(rtCalls) - 1

\* both attempts of a retryWithBackoff failed, two waits elapsed, then the
\* limit failure was raised
C30_Witness ==
    /\ rtFn = "retryWithBackoff" /\ rtMax = 2 /\ rtPc = "done"
    /\ rtCalls = <<Err("e1"), Err("e2")>>
    /\ rtWaits = <<1, 2>>
    /\ rtResult = Rejected(RetryLimitExceeded)

\* the operations of group b when n operations are cut, in order, into
\* groups of size operations
GroupMembers(b, n, size) ==
    {i \in 1..n : (b - 1) * size < i /\ i <= b * size}

\* the operations that were started and have not settled
BatchInFlight ==
    {i \in 1..Len(btOps) :
        /\ \E k \in 1..Len(btLog) : btLog[k] = [ev |-> "start", i |-> i]
        /\ btOps[i].state = "pending"}

(* C29: batch launches all groups concurrently: for every batchSize >= 1   *)
(* the operations are partitioned in order into groups of batchSize (the   *)
(* last group possibly smaller) and every operation of every group is      *)
(* started before any operation settles, so batchSize does not bound the   *)
(* number of operations in flight.                                         *)
C29_BatchAllGroupsAtOnce ==
    btCalled =>
        LET n == Len(btOps) IN
        /\ btSize >= 1
        /\ Len(btBatches) * btSize >= n
        /\ n > 0 => (Len(btBatches) - 1) * btSize < n
        /\ n = 0 => Len(btBatches) = 0
        /\ \A b \in 1..Len(btBatches) :
              /\ GroupMembers(b, n, btSize) # {}
              /\ btBatches[b].state = "fulfilled" <=>
                    \A i \in GroupMembers(b, n, btSize) :
                        btOps[i].state = "fulfilled"
              /\ btBatches[b].state = "rejected" <=>
                    \E i \in GroupMembers(b, n, btSize) :
                        btOps[i].state = "rejected"
        /\ Len(btLog) >= n
        /\ \A k \in 1..Len(btLog) :
              IF k <= n THEN btLog[k] = [ev |-> "start", i |-> k]
              ELSE btLog[k].ev = "settle"
        /\ BatchInFlight = {i \in 1..n : btOps[i].state = "pending"}

\* with groups of one, the third operation has fulfilled while the first
\* two, each of another group, are both still in flight
C29_Witness ==
    /\ btCalled /\ btSize = 1 /\ Len(btOps) = 3
    /\ btLog = StartAll(3) \o <<Settle(3)>>
    /\ BatchInFlight = {1, 2}
    /\ btBatches[3].state = "fulfilled"
    /\ btBatches[1] = Pending /\ btBatches[2] = Pending

=============================================================================
